---------------------------- MODULE Spec2Model ----------------------------
(***************************************************************************)
(* Model of the large-CSV extractors of the repository:                    *)
(*   - LargeCSVProcessor.extract_player_data  (process_large_csv 2.py)      *)
(*   - PandasCSVProcessor.extract_fantasy_data (process_large_csv_pandas    *)
(*     2.py)                                                                *)
(* A text (cell, key) is a sequence of one-character strings, so that      *)
(* trimming and number parsing are computed character by character.        *)
(***************************************************************************)
EXTENDS Integers, Sequences, FiniteSets, TLC

(***************************************************************************)
(* Bounds of the model.                                                    *)
(***************************************************************************)
\* largest number of data rows of a file
MaxRows == 3
\* largest chunk size tried by the chunked extractor
MaxChunk == 3
\* largest number of data rows of a file read one row per chunk
MaxProgressRows == 11
\* largest number of rows of a one-column sample
MaxSampleRows == 6

(***************************************************************************)
(* Python text primitives.                                                 *)
(***************************************************************************)
None == "<None>"

Whitespace == {" ", "\t"}

Digits == {"0", "1", "2", "3", "4", "5", "6", "7", "8", "9"}

DigitVal(c) ==
    CASE c = "0" -> 0 [] c = "1" -> 1 [] c = "2" -> 2 [] c = "3" -> 3
      [] c = "4" -> 4 [] c = "5" -> 5 [] c = "6" -> 6 [] c = "7" -> 7
      [] c = "8" -> 8 [] c = "9" -> 9

Lower(c) ==
    CASE c = "A" -> "a" [] c = "B" -> "b" [] c = "C" -> "c" [] c = "D" -> "d"
      [] c = "E" -> "e" [] c = "F" -> "f" [] c = "G" -> "g" [] c = "H" -> "h"
      [] c = "I" -> "i" [] c = "J" -> "j" [] c = "K" -> "k" [] c = "L" -> "l"
      [] c = "M" -> "m" [] c = "N" -> "n" [] c = "O" -> "o" [] c = "P" -> "p"
      [] c = "Q" -> "q" [] c = "R" -> "r" [] c = "S" -> "s" [] c = "T" -> "t"
      [] c = "U" -> "u" [] c = "V" -> "v" [] c = "W" -> "w" [] c = "X" -> "x"
      [] c = "Y" -> "y" [] c = "Z" -> "z"
      [] OTHER -> c

RECURSIVE lstrip(_)
lstrip(s) ==
    IF s # <<>> /\ Head(s) \in Whitespace THEN lstrip(Tail(s)) ELSE s

RECURSIVE rstrip(_)
rstrip(s) ==
    IF s # <<>> /\ s[Len(s)] \in Whitespace
    THEN rstrip(SubSeq(s, 1, Len(s) - 1))
    ELSE s

\* str.strip()
strip(s) == rstrip(lstrip(s))

\* c in s
Contains(s, c) == \E i \in 1..Len(s) : s[i] = c

\* s without its underscores (int() and float() accept 1_000)
RECURSIVE DropUnderscores(_)
DropUnderscores(s) ==
    IF s = <<>> THEN <<>>
    ELSE IF Head(s) = "_" THEN DropUnderscores(Tail(s))
    ELSE <<Head(s)>> \o DropUnderscores(Tail(s))

\* a digit part of a Python numeric literal: digits, single underscores between
DigitPart(s) ==
    /\ s # <<>>
    /\ \A i \in 1..Len(s) : s[i] \in Digits \cup {"_"}
    /\ s[1] \in Digits
    /\ s[Len(s)] \in Digits
    /\ \A i \in 1..(Len(s) - 1) : ~(s[i] = "_" /\ s[i + 1] = "_")

\* the value of a sequence of decimal digits
RECURSIVE DecimalValue(_)
DecimalValue(s) ==
    IF s = <<>> THEN 0
    ELSE 10 * DecimalValue(SubSeq(s, 1, Len(s) - 1)) + DigitVal(s[Len(s)])

HasSign(s) == s # <<>> /\ Head(s) \in {"+", "-"}

Unsigned(s) == IF HasSign(s) THEN Tail(s) ELSE s

SignOf(s) == IF s # <<>> /\ Head(s) = "-" THEN -1 ELSE 1

\* int(s) does not raise ValueError
int_parses(s) == DigitPart(Unsigned(strip(s)))

\* int(s)
int_value(s) ==
    SignOf(strip(s)) * DecimalValue(DropUnderscores(Unsigned(strip(s))))

\* index of the first occurrence of one of cs in s, 0 when none
RECURSIVE FindFrom(_, _, _)
FindFrom(s, cs, i) ==
    IF i > Len(s) THEN 0
    ELSE IF s[i] \in cs THEN i
    ELSE FindFrom(s, cs, i + 1)

Find(s, cs) == FindFrom(s, cs, 1)

LowerSeq(s) == [i \in 1..Len(s) |-> Lower(s[i])]

FloatWords == {<<"i", "n", "f">>, <<"i", "n", "f", "i", "n", "i", "t", "y">>,
               <<"n", "a", "n">>}

\* the parts of a decimal float literal u (unsigned): mantissa text, exponent text
MantissaText(u) ==
    LET e == Find(u, {"e", "E"}) IN IF e = 0 THEN u ELSE SubSeq(u, 1, e - 1)

ExponentText(u) ==
    LET e == Find(u, {"e", "E"}) IN SubSeq(u, e + 1, Len(u))

HasExponent(u) == Find(u, {"e", "E"}) # 0

IntegerText(m) ==
    LET p == Find(m, {"."}) IN IF p = 0 THEN m ELSE SubSeq(m, 1, p - 1)

FractionText(m) ==
    LET p == Find(m, {"."}) IN IF p = 0 THEN <<>> ELSE SubSeq(m, p + 1, Len(m))

\* digits [. [digits]]  or  . digits
MantissaOk(m) ==
    LET ip == IntegerText(m)
        fp == FractionText(m)
    IN  /\ ip = <<>> \/ DigitPart(ip)
        /\ fp = <<>> \/ DigitPart(fp)
        /\ ip # <<>> \/ fp # <<>>

ExponentOk(x) == DigitPart(Unsigned(x))

\* float(s) does not raise ValueError
float_parses(s) ==
    LET u == Unsigned(strip(s))
    IN  \/ LowerSeq(u) \in FloatWords
        \/ /\ MantissaOk(MantissaText(u))
           /\ HasExponent(u) => ExponentOk(ExponentText(u))

\* typed values: the three shapes a stored cell can take, and pandas' NaN
Integer(n) == [tag |-> "Integer", num |-> n, exp |-> 0, text |-> <<>>]

Text(s) == [tag |-> "Text", num |-> 0, exp |-> 0, text |-> s]

\* a finite float num * 10^exp, normalised so that num carries no factor 10
RECURSIVE Float(_, _)
Float(m, e) ==
    IF m = 0 THEN [tag |-> "Float", num |-> 0, exp |-> 0, text |-> <<>>]
    ELSE IF m % 10 = 0 THEN Float(m \div 10, e + 1)
    ELSE [tag |-> "Float", num |-> m, exp |-> e, text |-> <<>>]

Infinity(sign) == [tag |-> "Float", num |-> sign, exp |-> 0, text |-> <<"i", "n", "f">>]

NaN == [tag |-> "Float", num |-> 0, exp |-> 0, text |-> <<"n", "a", "n">>]

\* float(s), for s that parses
float_value(s) ==
    LET t == strip(s)
        u == Unsigned(t)
        w == LowerSeq(u)
        m == MantissaText(u)
        ip == DropUnderscores(IntegerText(m))
        fp == DropUnderscores(FractionText(m))
        x == ExponentText(u)
        ex == IF HasExponent(u)
              THEN SignOf(x) * DecimalValue(DropUnderscores(Unsigned(x)))
              ELSE 0
    IN  IF w = <<"n", "a", "n">> THEN NaN
        ELSE IF w \in FloatWords THEN Infinity(SignOf(t))
        ELSE Float(SignOf(t) * DecimalValue(ip \o fp), ex - Len(fp))


(***************************************************************************)
(* Python containers.                                                      *)
(***************************************************************************)
\* seq[i] does not raise IndexError
InRange(seq, i) == -Len(seq) <= i /\ i < Len(seq)

\* seq[i], negative i counting from the end
PyIndex(seq, i) == IF i >= 0 THEN seq[i + 1] ELSE seq[Len(seq) + i + 1]

\* max(indices, default=0)
RECURSIVE MaxDefault0(_)
MaxDefault0(indices) ==
    IF indices = <<>> THEN 0
    ELSE IF Len(indices) = 1 THEN indices[1]
    ELSE LET m == MaxDefault0(Tail(indices))
         IN  IF Head(indices) >= m THEN Head(indices) ELSE m

Max2(a, b) == IF a >= b THEN a ELSE b

\* d.setdefault(k, v)
DictSetDefault(d, k, v) ==
    [x \in (DOMAIN d) \cup {k} |-> IF x \in DOMAIN d THEN d[x] ELSE v]

\* d[k] = v on a dict d (a function on its keys)
DictSet(d, k, v) == [x \in (DOMAIN d) \cup {k} |-> IF x = k THEN v ELSE d[x]]

EmptyDict == <<>>

\* a value that may be None
NoneValue == [none |-> TRUE, value |-> <<>>]

Value(v) == [none |-> FALSE, value |-> v]

(***************************************************************************)
(* State.  The file (headers, csv_rows) and the arguments of the run are   *)
(* fixed by Init; the rest is the local state of the extraction loop.      *)
(***************************************************************************)
VARIABLES
    headers,            \* self.headers: the header row
    csv_rows,           \* the data rows of the file at csv_path, in file order
    processed_rows,     \* the local counter processed_rows of the running extractor
    pc                  \* where the running extractor is:
                        \*   extract_player_data: "loop" | "returned" | "raised"
                        \*   extract_fantasy_data: "chunks" | "returned" | "failed"

\* LargeCSVProcessor.extract_player_data
VARIABLES
    player_col_idx,     \* argument
    stat_col_indices,   \* argument
    position_filter,    \* argument (None by default)
    row_num,            \* number of rows the loop has consumed
    players_data        \* dict: player name -> player_stats

\* PandasCSVProcessor.extract_fantasy_data
VARIABLES
    chunk_size,         \* self.chunk_size
    player_col,         \* arguments
    stat_cols,
    position_col,
    team_col,
    year_col,
    filters,            \* dict: "positions" -> accepted values, "year" -> value
    chunk_num,          \* number of chunks processed
    all_data            \* list of records, one dict per kept row

\* main() of either script, the file around the data rows, the output
VARIABLES
    step,               \* the call main() is at ("call": the extractor is
                        \* called directly, without main)
    csv_header,         \* the first line of the file: how reading it ends
                        \* ("ok" | "StopIteration" | "Error") and the row read
    row_count,          \* self.row_count, self.total_rows
    sample_data,        \* self.sample_data: the rows of the sample frame
    detected,           \* interactive_setup: what detect_player_columns returned
    extracted_data,     \* main's variable extracted_data
    output_file,        \* the document at output_path
    summary_file,       \* the document at summary_path
    progress            \* the progress lines printed by the running extractor

\* split_ohio.py: split_path_commands
VARIABLES
    commands,           \* argument: the parsed path commands
    num_chunks,         \* argument
    split_i,            \* the loop variable i of range(0, total_commands, chunk_size)
    chunks,             \* the list of chunks
    split_pc            \* "idle" | "loop" | "returned" | "raised"

\* clean_rankings.py: the parsing loop
VARIABLES
    lines,              \* raw_data.strip().split('\n')
    line_num,           \* number of lines the loop has consumed
    current_rank,       \* None or the text of a rank
    results,            \* the list of emitted texts
    rank_pc             \* "idle" | "loop" | "printed"

splitVars == <<commands, num_chunks, split_i, chunks, split_pc>>

rankVars == <<lines, line_num, current_rank, results, rank_pc>>

sideVars == <<splitVars, rankVars>>

streamVars == <<player_col_idx, stat_col_indices, position_filter, row_num,
               players_data>>

mainVars == <<step, csv_header, row_count, sample_data, detected,
              extracted_data, output_file, summary_file, sideVars>>

pandasVars == <<chunk_size, player_col, stat_cols, position_col, team_col,
                year_col, filters, chunk_num, all_data>>

vars == <<headers, csv_rows, processed_rows, pc, progress, streamVars,
          pandasVars, mainVars>>

\* split_path_commands is not running
SplitIdle ==
    /\ commands = <<>>
    /\ num_chunks = 1
    /\ split_i = 0
    /\ chunks = <<>>
    /\ split_pc = "idle"

\* the parsing loop of clean_rankings.py is not running
RankIdle ==
    /\ lines = <<>>
    /\ line_num = 0
    /\ current_rank = NoneValue
    /\ results = <<>>
    /\ rank_pc = "idle"

SideIdle == SplitIdle /\ RankIdle

\* the state of the programs other than the streaming extractor
besideStream == <<pandasVars, mainVars>>

\* the state of the programs other than the chunked extractor
besidePandas == <<streamVars, mainVars>>

(***************************************************************************)
(* LargeCSVProcessor.extract_player_data                                   *)
(***************************************************************************)
\* the row the loop reads next
row == csv_rows[row_num + 1]

\* line 134: a progress line every 50000 stored rows
ProgressRows == 50000

\* len(row) <= max(player_col_idx, max(stat_col_indices, default=0))
ShortRowStrict(r) == Len(r) < Max2(player_col_idx, MaxDefault0(stat_col_indices))

\* a guard that also passes over the rows without a cell of position_filter
ShortRowOrFiltered(r) ==
    \/ Len(r) <= Max2(player_col_idx, MaxDefault0(stat_col_indices))
    \/ /\ ~position_filter.none
       /\ \A c \in 1..Len(r) :
              \A f \in 1..Len(position_filter.value) :
                  r[c] # position_filter.value[f]

ShortRow(r) == Len(r) <= Max2(player_col_idx, MaxDefault0(stat_col_indices))

\* row[player_col_idx].strip()
player_name_untrimmed(r) == PyIndex(r, player_col_idx)

player_name(r) == strip(PyIndex(r, player_col_idx))

\* the try/except of lines 122-128: one parse, chosen by '.' in stat_value
CoerceBroken(stat_value) ==
    IF Contains(stat_value, ".")
    THEN IF int_parses(stat_value) THEN Integer(int_value(stat_value)) ELSE Text(stat_value)
    ELSE IF float_parses(stat_value) THEN float_value(stat_value) ELSE Text(stat_value)

Coerce(stat_value) ==
    IF Contains(stat_value, ".")
    THEN IF float_parses(stat_value) THEN float_value(stat_value) ELSE Text(stat_value)
    ELSE IF int_parses(stat_value) THEN Integer(int_value(stat_value)) ELSE Text(stat_value)

\* headers[stat_idx] or row[stat_idx] raises IndexError for some projected column
RowRaises(r) ==
    \E j \in 1..Len(stat_col_indices) :
        LET stat_idx == stat_col_indices[j]
        IN  /\ stat_idx < Len(r)
            /\ ~InRange(headers, stat_idx) \/ ~InRange(r, stat_idx)

\* the loop of lines 116-128 from the j-th projected column on
RECURSIVE StatsFrom(_, _, _)
StatsFrom(r, j, acc) ==
    IF j > Len(stat_col_indices) THEN acc
    ELSE LET stat_idx == stat_col_indices[j]
         IN  IF stat_idx < Len(r)
             THEN StatsFrom(r, j + 1,
                      DictSet(acc, PyIndex(headers, stat_idx),
                              Coerce(strip(PyIndex(r, stat_idx)))))
             ELSE StatsFrom(r, j + 1, acc)

\* player_stats of a row, lines 115-128
player_stats_unnamed(r) == StatsFrom(r, 1, EmptyDict)

player_stats(r) == StatsFrom(r, 1, DictSet(EmptyDict, "name", Text(player_name(r))))

\* players_data[player_name] = player_stats, line 130
UpsertKeepFirst(table, key, record) ==
    IF key \in DOMAIN table THEN table ELSE DictSet(table, key, record)

Upsert(table, key, record) == DictSet(table, key, record)

\* lines 106-131 as a function of the rows read: the table the loop has
\* built once it has consumed rows (none of which raises)
RECURSIVE TableOf(_)
TableOf(rows) ==
    IF rows = <<>> THEN EmptyDict
    ELSE LET before == TableOf(SubSeq(rows, 1, Len(rows) - 1))
             r == rows[Len(rows)]
         IN  IF ShortRow(r) \/ player_name(r) = <<>> THEN before
             ELSE Upsert(before, player_name(r), player_stats(r))

\* line 107-108: a short row is passed over
SkipShortRow ==
    /\ pc = "loop"
    /\ row_num < Len(csv_rows)
    /\ ShortRow(row)
    /\ row_num' = row_num + 1
    /\ UNCHANGED <<headers, csv_rows, player_col_idx, stat_col_indices, position_filter,
                   players_data, processed_rows, pc, progress, besideStream>>

\* line 110-112: a row without a player name is passed over
SkipEmptyName ==
    /\ pc = "loop"
    /\ row_num < Len(csv_rows)
    /\ ~ShortRow(row)
    /\ player_name(row) = <<>>
    /\ row_num' = row_num + 1
    /\ UNCHANGED <<headers, csv_rows, player_col_idx, stat_col_indices, position_filter,
                   players_data, processed_rows, pc, progress, besideStream>>

\* lines 114-131: the row's stats replace the player's entry
StoreRow ==
    /\ pc = "loop"
    /\ row_num < Len(csv_rows)
    /\ ~ShortRow(row)
    /\ player_name(row) # <<>>
    /\ ~RowRaises(row)
    /\ players_data' = Upsert(players_data, player_name(row), player_stats(row))
    /\ processed_rows' = processed_rows + 1
    /\ progress' = IF (processed_rows + 1) % ProgressRows = 0
                   THEN Append(progress, [rows |-> processed_rows + 1])
                   ELSE progress
    /\ row_num' = row_num + 1
    /\ UNCHANGED <<headers, csv_rows, player_col_idx, stat_col_indices, position_filter, pc,
                   besideStream>>

\* lines 118-119: an index outside headers or row raises IndexError, which
\* nothing catches: the call ends without returning players_data
RaiseIndexError ==
    /\ pc = "loop"
    /\ row_num < Len(csv_rows)
    /\ ~ShortRow(row)
    /\ player_name(row) # <<>>
    /\ RowRaises(row)
    /\ pc' = "raised"
    /\ UNCHANGED <<headers, csv_rows, player_col_idx, stat_col_indices, position_filter,
                   row_num, players_data, processed_rows, progress, besideStream>>

\* line 138: the reader is exhausted, players_data is returned
ReturnPlayersData ==
    /\ pc = "loop"
    /\ row_num = Len(csv_rows)
    /\ pc' = "returned"
    /\ UNCHANGED <<headers, csv_rows, player_col_idx, stat_col_indices, position_filter,
                   row_num, players_data, processed_rows, progress, besideStream>>

StreamNext ==
    \/ SkipShortRow
    \/ SkipEmptyName
    \/ StoreRow
    \/ RaiseIndexError
    \/ ReturnPlayersData

(***************************************************************************)
(* pandas: read_csv, astype(str), isin, to_dict, as far as the chunked      *)
(* extractor uses them.  read_csv infers the dtype of every column from    *)
(* the rows of the chunk it parses: int64 when every cell is an integer,   *)
(* float64 when every cell is a number or missing, object otherwise        *)
(* (bool columns are not modelled).                                        *)
(***************************************************************************)
\* some of read_csv's default na_values
NaValues ==
    { <<>>, <<"N", "/", "A">>, <<"N", "A">>, <<"N", "a", "N">>, <<"n", "a", "n">>,
      <<"n", "/", "a">>, <<"n", "u", "l", "l">>, <<"N", "U", "L", "L">>,
      <<"N", "o", "n", "e">> }

\* the position of a column name in the header
ColumnIndex(name) == CHOOSE i \in 1..Len(headers) : headers[i] = name

\* the token of column name in a parsed line; a line short of the column
\* yields a missing value, fields beyond the header are dropped (usecols)
Token(r, name) ==
    IF ColumnIndex(name) <= Len(r) THEN r[ColumnIndex(name)] ELSE <<>>

IsNA(tok) == tok \in NaValues

pd_int_parses(tok) == int_parses(tok) /\ ~Contains(tok, "_")

pd_float_parses(tok) == float_parses(tok) /\ ~Contains(tok, "_")

\* the dtype read_csv infers for a column from the rows of one chunk
ColumnDtype(chunk, name) ==
    LET toks == {Token(chunk[i], name) : i \in 1..Len(chunk)}
        present == {t \in toks : ~IsNA(t)}
    IN  IF chunk = <<>> THEN "object"
        ELSE IF present = toks /\ \A t \in toks : pd_int_parses(t) THEN "int64"
        ELSE IF \A t \in present : pd_float_parses(t) THEN "float64"
        ELSE "object"

\* an int64 cell seen as float64
AsFloat(tok) ==
    IF pd_int_parses(tok) THEN Float(int_value(tok), 0) ELSE float_value(tok)

\* the value of a token in a column of the given dtype
CellValue(tok, dtype) ==
    IF dtype = "int64" THEN Integer(int_value(tok))
    ELSE IF IsNA(tok) THEN NaN
    ELSE IF dtype = "float64" THEN AsFloat(tok)
    ELSE Text(tok)

\* columns_to_read, lines 140-146
Truthy(x) == x # None /\ x # ""

columns_to_read(p_col, s_cols, pos_col, t_col, y_col) ==
    {p_col} \cup {s_cols[i] : i \in 1..Len(s_cols)}
      \cup {c \in {pos_col, t_col, y_col} : Truthy(c)}

\* pd.read_csv(..., usecols=columns_to_read) raises ValueError for a name
\* that is no column of the file
UsecolsMatchWithRows(cols) ==
    /\ csv_rows # <<>>
    /\ \A c \in cols : \E i \in 1..Len(headers) : headers[i] = c

UsecolsMatch(cols) == \A c \in cols : \E i \in 1..Len(headers) : headers[i] = c

\* one chunk as a frame: one record per row, typed column by column
ReadChunk(chunk, cols) ==
    [i \in 1..Len(chunk) |->
        [c \in cols |-> CellValue(Token(chunk[i], c), ColumnDtype(chunk, c))]]

DigitChar(d) == CHOOSE c \in Digits : DigitVal(c) = d

\* str(n) for a natural number
RECURSIVE NatText(_)
NatText(n) ==
    IF n < 10 THEN <<DigitChar(n)>>
    ELSE NatText(n \div 10) \o <<DigitChar(n % 10)>>

Abs(n) == IF n < 0 THEN -n ELSE n

SignText(n) == IF n < 0 THEN <<"-">> ELSE <<>>

RECURSIVE Pow10(_)
Pow10(e) == IF e = 0 THEN 1 ELSE 10 * Pow10(e - 1)

RECURSIVE Zeros(_)
Zeros(n) == IF n <= 0 THEN <<>> ELSE <<"0">> \o Zeros(n - 1)

\* str(x) for a float in positional notation (repr switches to exponent
\* notation only from 1e16 on and below 1e-4)
FloatText(v) ==
    IF v.text = <<"n", "a", "n">> THEN v.text
    ELSE IF v.text # <<>> THEN SignText(v.num) \o v.text
    ELSE IF v.exp >= 0
    THEN SignText(v.num) \o NatText(Abs(v.num) * Pow10(v.exp)) \o <<".", "0">>
    ELSE LET d == NatText(Abs(v.num))
             padded == Zeros(1 - v.exp - Len(d)) \o d
             cut == Len(padded) + v.exp
         IN  SignText(v.num) \o SubSeq(padded, 1, cut) \o <<".">>
               \o SubSeq(padded, cut + 1, Len(padded))

\* astype(str) of one cell
AsStr(v) ==
    IF v.tag = "Integer" THEN SignText(v.num) \o NatText(Abs(v.num))
    ELSE IF v.tag = "Float" THEN FloatText(v)
    ELSE v.text

IsNaN(v) == v = NaN

\* Python ==, cell by cell: numbers by value, texts by text, NaN equal to nothing
ValueEq(a, b) ==
    /\ ~IsNaN(a)
    /\ ~IsNaN(b)
    /\ IF a.tag = "Text" \/ b.tag = "Text" THEN a = b
       ELSE a.num = b.num /\ a.exp = b.exp /\ a.text = b.text

\* Series.isin(values) for one cell
IsIn(v, values) == \E x \in values : ValueEq(v, x)

\* frame[mask]: the rows of a frame whose mask entry is true, in order
RECURSIVE Masked(_, _)
Masked(frame, mask) ==
    IF frame = <<>> THEN <<>>
    ELSE IF Head(mask) THEN <<Head(frame)>> \o Masked(Tail(frame), Tail(mask))
    ELSE Masked(Tail(frame), Tail(mask))

(***************************************************************************)
(* PandasCSVProcessor.extract_fantasy_data                                 *)
(***************************************************************************)
\* lines 159-161: rows without a player name leave the chunk
Clean(frame, p_col) ==
    LET named == Masked(frame, [i \in 1..Len(frame) |-> ~IsNaN(frame[i][p_col])])
        stripped == [i \in 1..Len(named) |->
                        [named[i] EXCEPT ![p_col] = Text(strip(AsStr(named[i][p_col])))]]
    IN  Masked(stripped, [i \in 1..Len(stripped) |-> stripped[i][p_col].text # <<>>])

\* lines 164-168: the position and year filters
ApplyFiltersInverted(frame, pos_col, y_col, flt) ==
    IF DOMAIN flt # {} /\ Truthy(pos_col) /\ "positions" \in DOMAIN flt
    THEN Masked(frame, [i \in 1..Len(frame) |->
                           ~IsIn(frame[i][pos_col], flt["positions"])])
    ELSE frame

ApplyFiltersTrimmed(frame, pos_col, y_col, flt) ==
    IF DOMAIN flt # {} /\ Truthy(pos_col) /\ "positions" \in DOMAIN flt
    THEN Masked(frame, [i \in 1..Len(frame) |->
                           /\ frame[i][pos_col].tag = "Text"
                           /\ Text(strip(frame[i][pos_col].text)) \in flt["positions"]])
    ELSE frame

ApplyFilters(frame, pos_col, y_col, flt) ==
    LET byPosition ==
            IF DOMAIN flt # {} /\ Truthy(pos_col) /\ "positions" \in DOMAIN flt
            THEN Masked(frame, [i \in 1..Len(frame) |->
                                   IsIn(frame[i][pos_col], flt["positions"])])
            ELSE frame
    IN  IF DOMAIN flt # {} /\ Truthy(y_col) /\ "year" \in DOMAIN flt
        THEN Masked(byPosition, [i \in 1..Len(byPosition) |->
                                    ValueEq(byPosition[i][y_col], flt["year"])])
        ELSE byPosition

\* lines 156-171: the records one chunk contributes
ChunkRecords(chunk, p_col, cols, pos_col, y_col, flt) ==
    ApplyFilters(Clean(ReadChunk(chunk, cols), p_col), pos_col, y_col, flt)

\* the chunks read_csv(chunksize=size) yields: consecutive windows of size
\* rows; a file without data rows yields one empty frame
NumChunks(rows, size) ==
    IF rows = <<>> THEN 1 ELSE (Len(rows) + size - 1) \div size

NthChunk(rows, size, n) ==
    SubSeq(rows, (n - 1) * size + 1,
           IF n * size <= Len(rows) THEN n * size ELSE Len(rows))

Columns == columns_to_read(player_col, stat_cols, position_col, team_col, year_col)

\* line 176: a progress line every 10 chunks
ProgressChunks == 10

ProgressDueAlways(n) == TRUE

ProgressDue(n) == n % ProgressChunks = 0

\* line 154: read_csv raises, the except clause returns None
ReadCsvRaises ==
    /\ pc = "chunks"
    /\ chunk_num = 0
    /\ ~UsecolsMatch(Columns)
    /\ pc' = "failed"
    /\ UNCHANGED <<headers, csv_rows, processed_rows, progress, pandasVars,
                   besidePandas>>

\* lines 154-178: one chunk is read, cleaned, filtered and appended
RECURSIVE DedupExtend(_, _, _)
DedupExtend(data, records, p_col) ==
    IF records = <<>> THEN data
    ELSE IF \E i \in 1..Len(data) : data[i][p_col] = Head(records)[p_col]
    THEN DedupExtend(data, Tail(records), p_col)
    ELSE DedupExtend(data \o <<Head(records)>>, Tail(records), p_col)

Extend(data, records, p_col) == data \o records

ProcessChunk ==
    /\ pc = "chunks"
    /\ UsecolsMatch(Columns)
    /\ chunk_num < NumChunks(csv_rows, chunk_size)
    /\ LET chunk == NthChunk(csv_rows, chunk_size, chunk_num + 1)
           records == ChunkRecords(chunk, player_col, Columns, position_col,
                                   year_col, filters)
       IN  /\ all_data' = Extend(all_data, records, player_col)
           /\ processed_rows' = processed_rows + Len(records)
           /\ progress' = IF ProgressDue(chunk_num + 1)
                          THEN Append(progress, [chunk |-> chunk_num + 1,
                                                 rows |-> processed_rows + Len(records)])
                          ELSE progress
    /\ chunk_num' = chunk_num + 1
    /\ UNCHANGED <<headers, csv_rows, pc, chunk_size, player_col, stat_cols,
                   position_col, team_col, year_col, filters, besidePandas>>

\* line 186: the reader is exhausted, all_data is returned
ReturnAllData ==
    /\ pc = "chunks"
    /\ UsecolsMatch(Columns)
    /\ chunk_num = NumChunks(csv_rows, chunk_size)
    /\ pc' = "returned"
    /\ UNCHANGED <<headers, csv_rows, processed_rows, progress, pandasVars,
                   besidePandas>>

PandasNext ==
    \/ ReadCsvRaises
    \/ ProcessChunk
    \/ ReturnAllData

\* the list extract_fantasy_data returns for a file, a chunk size and a filter
RECURSIVE FantasyDataFrom(_, _, _, _)
FantasyDataFrom(rows, size, flt, n) ==
    IF n > NumChunks(rows, size) THEN <<>>
    ELSE ChunkRecords(NthChunk(rows, size, n), player_col, Columns,
                      position_col, year_col, flt)
           \o FantasyDataFrom(rows, size, flt, n + 1)

FantasyData(rows, size, flt) == FantasyDataFrom(rows, size, flt, 1)

(***************************************************************************)
(* Inputs of the streaming extractor.                                      *)
(***************************************************************************)
Alice == <<"A", "l", "i", "c", "e">>
Bo == <<"B", "o">>
NYG == <<"N", "Y", "G">>
BUF == <<"B", "U", "F">>

\* the scenario of the specification: header name,team,points and three rows
ScenarioHeaders == <<"name", "team", "points">>

ScenarioRows ==
    << <<Alice, NYG, <<"1", "0", ".", "5">>>>,
       <<<<>>, BUF, <<"5">>>>,
       <<Alice, NYG, <<"1", "2">>>> >>

RowPool ==
    { ScenarioRows[1], ScenarioRows[2], ScenarioRows[3],
      \* a whitespace-only name
      <<<<" ", "\t">>, NYG, <<"1", "7">>>>,
      \* a short row
      <<Alice, BUF>>,
      \* padded cells, a cell that is no number
      <<<<" ">> \o Bo \o <<" ">>, <<"N", "/", "A">>, <<" ", "1", "2", ".", "5", " ">>>>,
      \* exponent notation
      <<Bo, <<"1", "e", "5">>, <<"1", "7">>>>,
      \* a row longer than the header
      <<Alice, BUF, <<"N", "/", "A">>, <<"7">>>> }

Files == UNION {[1..n -> RowPool] : n \in 0..MaxRows}

HeaderPool == {ScenarioHeaders}

\* what interactive_column_selection can return: the entered numbers minus one
\* (not validated), or the auto-detected columns
StatSelections ==
    {<<>>, <<1, 2>>, <<2, 1>>, <<2>>, <<0, 2>>, <<-1>>, <<3>>, <<-3>>}

\* extract_player_data is called
StreamCall ==
    /\ headers \in HeaderPool
    /\ csv_rows \in Files
    /\ player_col_idx \in 0..(Len(headers) - 1)
    /\ stat_col_indices \in StatSelections
    /\ row_num = 0
    /\ players_data = EmptyDict
    /\ processed_rows = 0
    /\ progress = <<>>
    /\ pc = "loop"

\* line 228: main passes no position_filter
StreamInit == StreamCall /\ position_filter = NoneValue

\* extract_player_data on a file with two columns of one name
DuplicateHeaders == <<"name", "points", "points">>


\* the streaming extractor is not running
StreamIdle ==
    /\ player_col_idx = 0
    /\ stat_col_indices = <<>>
    /\ position_filter = NoneValue
    /\ row_num = 0
    /\ players_data = EmptyDict

(***************************************************************************)
(* Inputs of the chunked extractor.                                        *)
(***************************************************************************)
QB == <<"Q", "B">>
RB == <<"R", "B">>
WR == <<"W", "R">>

PandasHeaders == <<"name", "pos", "points">>

PandasRowPool ==
    { <<Alice, QB, <<"1">>>>,
      \* the same name again, a fractional statistic
      <<Alice, RB, <<"2", ".", "5">>>>,
      \* a statistic that is no number
      <<Bo, QB, <<"x">>>>,
      \* no name
      <<<<>>, QB, <<"7">>>>,
      \* a whitespace-only name
      <<<<" ">>, WR, <<"x">>>>,
      \* a short row
      <<Bo>>,
      \* a position cell with a leading blank
      <<Bo, <<" ">> \o QB, <<"7">>>> }

PandasFiles == UNION {[1..n -> PandasRowPool] : n \in 0..MaxRows}

\* what interactive_setup builds: no filter, or the positions typed in
FilterPool ==
    {EmptyDict} \cup {[positions |-> {Text(p) : p \in ps}] : ps \in SUBSET {QB, RB}}

PandasInit ==
    /\ headers = PandasHeaders
    /\ csv_rows \in PandasFiles
    /\ chunk_size \in 1..MaxChunk
    /\ player_col \in {"name", "player"}
    /\ stat_cols = <<"points">>
    /\ position_col \in {None, "pos"}
    /\ team_col = None
    /\ year_col = None
    /\ filters \in FilterPool
    /\ chunk_num = 0
    /\ all_data = <<>>
    /\ processed_rows = 0
    /\ progress = <<>>
    /\ pc = "chunks"

\* the chunked extractor is not running
PandasIdle ==
    /\ chunk_size = 1
    /\ player_col = None
    /\ stat_cols = <<>>
    /\ position_col = None
    /\ team_col = None
    /\ year_col = None
    /\ filters = EmptyDict
    /\ chunk_num = 0
    /\ all_data = <<>>

(***************************************************************************)
(* PandasCSVProcessor.detect_player_columns                                *)
(***************************************************************************)
\* the characters of a column name
Chars(name) ==
    CASE name = "name" -> <<"n", "a", "m", "e">>
      [] name = "pos" -> <<"p", "o", "s">>
      [] name = "points" -> <<"p", "o", "i", "n", "t", "s">>
      [] name = "team" -> <<"t", "e", "a", "m">>
      [] name = "player" -> <<"p", "l", "a", "y", "e", "r">>
      [] name = "Player" -> <<"P", "l", "a", "y", "e", "r">>
      [] name = "player_team" -> <<"p", "l", "a", "y", "e", "r", "_", "t", "e", "a", "m">>
      [] name = "team_pos" -> <<"t", "e", "a", "m", "_", "p", "o", "s">>
      [] name = "pos_rank" -> <<"p", "o", "s", "_", "r", "a", "n", "k">>
      [] name = "team_pts" -> <<"t", "e", "a", "m", "_", "p", "t", "s">>
      [] name = "season" -> <<"s", "e", "a", "s", "o", "n">>
      [] name = "Week" -> <<"W", "e", "e", "k">>
      [] name = "date" -> <<"d", "a", "t", "e">>
      [] name = "id" -> <<"i", "d">>
      [] name = "player_rank" ->
             <<"p", "l", "a", "y", "e", "r", "_", "r", "a", "n", "k">>

\* keyword in col_lower
IsSubstring(kw, t) ==
    \E i \in 0..(Len(t) - Len(kw)) : SubSeq(t, i + 1, i + Len(kw)) = kw

\* any(keyword in col_lower for keyword in [...])
AnyKeyword(col, keywords) ==
    \E kw \in keywords : IsSubstring(kw, LowerSeq(Chars(col)))

\* lines 86-88
PlayerKeywords ==
    { <<"n", "a", "m", "e">>, <<"p", "l", "a", "y", "e", "r">>,
      <<"f", "u", "l", "l", "_", "n", "a", "m", "e">>,
      <<"p", "l", "a", "y", "e", "r", "_", "n", "a", "m", "e">> }

\* lines 96-98
PositionKeywords ==
    { <<"p", "o", "s", "i", "t", "i", "o", "n">>, <<"p", "o", "s">>,
      <<"e", "l", "i", "g", "i", "b", "l", "e">> }

\* lines 102-104
TeamKeywords ==
    { <<"t", "e", "a", "m">>, <<"t", "m">>, <<"c", "l", "u", "b">> }

\* lines 108-114
StatKeywords ==
    { <<"f", "a", "n", "t", "a", "s", "y">>,
      <<"p", "o", "i", "n", "t", "s">>, <<"p", "t", "s">>,
      <<"y", "a", "r", "d", "s">>, <<"y", "d">>, <<"y", "d", "s">>,
      <<"t", "o", "u", "c", "h", "d", "o", "w", "n">>, <<"t", "d">>,
      <<"r", "e", "c", "e", "p", "t", "i", "o", "n">>, <<"r", "e", "c">>,
      <<"t", "a", "r", "g", "e", "t">>, <<"t", "g", "t">>,
      <<"r", "u", "s", "h">>, <<"p", "a", "s", "s">>, <<"a", "d", "p">>,
      <<"r", "a", "n", "k">>,
      <<"p", "r", "o", "j", "e", "c", "t", "i", "o", "n">>,
      <<"p", "r", "o", "j">>, <<"a", "c", "t", "u", "a", "l">>,
      <<"s", "e", "a", "s", "o", "n">>, <<"w", "e", "e", "k">>,
      <<"g", "a", "m", "e">>, <<"s", "n", "a", "p">>,
      <<"s", "h", "a", "r", "e">>, <<"p", "p", "r">>, <<"h", "a", "l", "f">>,
      <<"s", "t", "a", "n", "d", "a", "r", "d">>,
      <<"s", "c", "o", "r", "e">> }

\* col_data.dropna().head(5).tolist()
SampleHead == 5

RECURSIVE DropNA(_)
DropNA(toks) ==
    IF toks = <<>> THEN <<>>
    ELSE IF IsNA(Head(toks)) THEN DropNA(Tail(toks))
    ELSE <<Head(toks)>> \o DropNA(Tail(toks))

sample_values(rows, col) ==
    LET present == DropNA([i \in 1..Len(rows) |-> Token(rows[i], col)])
    IN  SubSeq(present, 1, IF Len(present) < SampleHead THEN Len(present)
                           ELSE SampleHead)

\* lines 90-93: the column is text and a sampled value has a space in it
LooksLikeNamesMajority(rows, col) ==
    /\ ColumnDtype(rows, col) = "object"
    /\ LET vals == sample_values(rows, col)
       IN  2 * Cardinality({i \in 1..Len(vals) : Contains(vals[i], " ")}) > Len(vals)

LooksLikeNames(rows, col) ==
    /\ ColumnDtype(rows, col) = "object"
    /\ \E i \in 1..Len(sample_values(rows, col)) :
           Contains(sample_values(rows, col)[i], " ")

\* lines 85-117: the list a column is appended to, if any
ListOfStatFirst(rows, col) ==
    IF AnyKeyword(col, PlayerKeywords)
    THEN IF LooksLikeNames(rows, col) THEN "player_columns" ELSE "no list"
    ELSE IF AnyKeyword(col, StatKeywords) THEN "stat_columns"
    ELSE IF AnyKeyword(col, PositionKeywords) THEN "position_columns"
    ELSE IF AnyKeyword(col, TeamKeywords) THEN "team_columns"
    ELSE "no list"

ListOf(rows, col) ==
    IF AnyKeyword(col, PlayerKeywords)
    THEN IF LooksLikeNames(rows, col) THEN "player_columns" ELSE "no list"
    ELSE IF AnyKeyword(col, PositionKeywords) THEN "position_columns"
    ELSE IF AnyKeyword(col, TeamKeywords) THEN "team_columns"
    ELSE IF AnyKeyword(col, StatKeywords)
    THEN IF ColumnDtype(rows, col) \in {"int64", "float64", "object"}
         THEN "stat_columns" ELSE "no list"
    ELSE "no list"

\* line 79: without a sample, line 125: the four lists
NothingDetected ==
    [player_columns |-> <<>>, stat_columns |-> <<>>,
     position_columns |-> <<>>, team_columns |-> <<>>]

detect_player_columns ==
    IF sample_data.none THEN NothingDetected
    ELSE [list \in DOMAIN NothingDetected |->
             SelectSeq(headers, LAMBDA col : ListOf(sample_data.value, col) = list)]

(***************************************************************************)
(* Python values that may be None, and files that may not be written.      *)
(***************************************************************************)
\* a file that was not written, one whose writing broke off, one written whole
Absent == [written |-> "no", doc |-> <<>>]

Partial == [written |-> "partial", doc |-> <<>>]

Written(doc) == [written |-> "complete", doc |-> doc]

\* the extractor is called directly on a file whose header was read
DirectCall ==
    /\ step = "call"
    /\ csv_header = [read |-> "ok", row |-> headers]
    /\ row_count = 0
    /\ sample_data = NoneValue
    /\ detected = NothingDetected
    /\ SideIdle
    /\ extracted_data = NoneValue
    /\ output_file = Absent
    /\ summary_file = Absent

(***************************************************************************)
(* json.dump: the documents written to the output files.                   *)
(***************************************************************************)
\* a number as json.dump writes it
JsonNumber(v) ==
    IF v.tag = "Integer" THEN AsStr(v)
    ELSE IF v = NaN THEN <<"N", "a", "N">>
    ELSE IF v.text # <<>>
    THEN SignText(v.num) \o <<"I", "n", "f", "i", "n", "i", "t", "y">>
    ELSE FloatText(v)

JsonValue(v) ==
    IF v.tag = "Text" THEN [json |-> "string", lit |-> v.text]
    ELSE [json |-> "number", lit |-> JsonNumber(v)]

JsonRecord(record) == [a \in DOMAIN record |-> JsonValue(record[a])]

\* json.dump(players_data): an object, one member per player
JsonTable(table) == [k \in DOMAIN table |-> JsonRecord(table[k])]

\* json.dump(all_data): an array of objects
JsonList(data) == [i \in 1..Len(data) |-> JsonRecord(data[i])]

(***************************************************************************)
(* main() of process_large_csv 2.py                                        *)
(***************************************************************************)
\* how reading the first line of a file can end: a header row (possibly a
\* blank line), no line at all, or a line the csv reader rejects
HeaderReads(pool) ==
    {[read |-> "ok", row |-> h] : h \in pool}
      \cup {[read |-> "empty", row |-> <<>>], [read |-> "error", row |-> <<>>]}

\* main() starts on a file that exists
MainStart ==
    /\ step = "analyze_file"
    /\ headers = <<>>
    /\ row_count = 0
    /\ sample_data = NoneValue
    /\ detected = NothingDetected
    /\ SideIdle
    /\ extracted_data = NoneValue
    /\ output_file = Absent
    /\ summary_file = Absent
    /\ processed_rows = 0
    /\ progress = <<>>
    /\ pc = "idle"

MainInit ==
    /\ csv_header \in HeaderReads(HeaderPool \cup {<<>>})
    /\ csv_rows \in IF csv_header.read = "empty" THEN {<<>>} ELSE Files
    /\ MainStart

\* analyze_file returns True: the header is read, the lines are counted
\* (a failure of the counting pass is printed and leaves row_count)
AnalyzeFile ==
    /\ step = "analyze_file"
    /\ csv_header.read = "ok"
    /\ headers' = csv_header.row
    /\ row_count' \in {Len(csv_rows), row_count}
    /\ step' = "find_player_columns"
    /\ UNCHANGED <<csv_rows, processed_rows, pc, progress, streamVars, pandasVars,
                   csv_header, sideVars, detected, sample_data, extracted_data, output_file,
                   summary_file>>

\* analyze_file returns False (lines 47-49), main returns (line 215)
AnalyzeFileFailsIgnored ==
    /\ step = "analyze_file"
    /\ csv_header.read # "ok"
    /\ step' = "find_player_columns"
    /\ UNCHANGED <<headers, csv_rows, processed_rows, pc, progress, streamVars,
                   pandasVars, csv_header, sideVars, detected, row_count, sample_data,
                   extracted_data, output_file, summary_file>>

AnalyzeFileFails ==
    /\ step = "analyze_file"
    /\ csv_header.read # "ok"
    /\ step' = "return"
    /\ UNCHANGED <<headers, csv_rows, processed_rows, pc, progress, streamVars,
                   pandasVars, csv_header, sideVars, detected, row_count, sample_data,
                   extracted_data, output_file, summary_file>>

\* line 71
StreamPlayerKeywords ==
    { <<"n", "a", "m", "e">>, <<"p", "l", "a", "y", "e", "r">>,
      <<"f", "u", "l", "l", "_", "n", "a", "m", "e">> }

\* lines 75-78
StreamStatKeywords ==
    { <<"f", "a", "n", "t", "a", "s", "y">>, <<"p", "o", "i", "n", "t", "s">>,
      <<"y", "a", "r", "d", "s">>,
      <<"t", "o", "u", "c", "h", "d", "o", "w", "n">>, <<"t", "d">>,
      <<"r", "e", "c", "e", "p", "t", "i", "o", "n">>,
      <<"t", "a", "r", "g", "e", "t">>, <<"r", "u", "s", "h">>,
      <<"p", "a", "s", "s">>, <<"a", "d", "p">>, <<"r", "a", "n", "k">>,
      <<"p", "r", "o", "j", "e", "c", "t", "i", "o", "n">>,
      <<"a", "c", "t", "u", "a", "l">> }

\* line 71: the first if
PlayerCandidate(header) == AnyKeyword(header, StreamPlayerKeywords)

\* an elif in the place of the second if
StatCandidateElse(header) ==
    ~PlayerCandidate(header) /\ AnyKeyword(header, StreamStatKeywords)

\* lines 75-78: the second if
StatCandidate(header) == AnyKeyword(header, StreamStatKeywords)

\* lines 64-79: the (i, header) pairs appended over enumerate(self.headers),
\* from position i on
RECURSIVE CandidatesFrom(_, _, _)
CandidatesFrom(hdrs, i, group) ==
    IF i > Len(hdrs) THEN <<>>
    ELSE LET listed == IF group = "player_columns"
                       THEN PlayerCandidate(hdrs[i])
                       ELSE StatCandidate(hdrs[i])
         IN (IF listed THEN << <<i - 1, hdrs[i]>> >> ELSE <<>>)
              \o CandidatesFrom(hdrs, i + 1, group)

\* lines 62-91: return player_columns, stat_columns
find_player_columns(hdrs) ==
    [player_columns |-> CandidatesFrom(hdrs, 1, "player_columns"),
     stat_columns |-> CandidatesFrom(hdrs, 1, "stat_columns"),
     position_columns |-> <<>>, team_columns |-> <<>>]

\* line 218: the candidate columns are found and printed
FindPlayerColumns ==
    /\ step = "find_player_columns"
    /\ detected' = find_player_columns(headers)
    /\ step' = "interactive_column_selection"
    /\ UNCHANGED <<headers, csv_rows, processed_rows, pc, progress, streamVars,
                   pandasVars, csv_header, sideVars, row_count, sample_data,
                   extracted_data, output_file, summary_file>>

\* lines 222 and 228, 95-104: the operator's columns, and extract_player_data
\* is entered
SelectColumns ==
    /\ step = "interactive_column_selection"
    /\ player_col_idx' \in 0..(Len(headers) - 1)
    /\ stat_col_indices' \in StatSelections
    /\ position_filter' = NoneValue
    /\ row_num' = 0
    /\ players_data' = EmptyDict
    /\ processed_rows' = 0
    /\ progress' = <<>>
    /\ pc' = "loop"
    /\ step' = "extract_player_data"
    /\ UNCHANGED <<headers, csv_rows, pandasVars, csv_header, sideVars, detected, row_count,
                   sample_data, extracted_data, output_file, summary_file>>

\* lines 223-225: KeyboardInterrupt at a prompt, main returns
\* the interrupt taken for an empty selection
SelectionInterruptedSaves ==
    /\ step = "interactive_column_selection"
    /\ extracted_data' = Value(EmptyDict)
    /\ step' = "save_extracted_data"
    /\ UNCHANGED <<headers, csv_rows, processed_rows, pc, progress, streamVars,
                   pandasVars, csv_header, sideVars, detected, row_count, sample_data,
                   output_file, summary_file>>

SelectionInterrupted ==
    /\ step = "interactive_column_selection"
    /\ step' = "return"
    /\ UNCHANGED <<headers, csv_rows, processed_rows, pc, progress, streamVars,
                   pandasVars, csv_header, sideVars, detected, row_count, sample_data,
                   extracted_data, output_file, summary_file>>

\* lines 102-106: reading the file raises OSError, which nothing catches
StreamReadFails ==
    /\ pc = "loop"
    /\ pc' = "io_error"
    /\ UNCHANGED <<headers, csv_rows, processed_rows, progress, streamVars,
                   pandasVars, mainVars>>

\* line 228: extract_player_data has returned its table
ExtractReturns ==
    /\ step = "extract_player_data"
    /\ pc = "returned"
    /\ extracted_data' = Value(players_data)
    /\ step' = "save_extracted_data"
    /\ UNCHANGED <<headers, csv_rows, processed_rows, pc, progress, streamVars,
                   pandasVars, csv_header, sideVars, detected, row_count, sample_data, output_file,
                   summary_file>>

\* line 228: the exception leaves main with a traceback
ExtractRaises ==
    /\ step = "extract_player_data"
    /\ pc \in {"raised", "io_error"}
    /\ step' = "traceback"
    /\ UNCHANGED <<headers, csv_rows, processed_rows, pc, progress, streamVars,
                   pandasVars, csv_header, sideVars, detected, row_count, sample_data,
                   extracted_data, output_file, summary_file>>

\* lines 142-146, 232-236: the table is written, main ends
SaveExtractedDataClearing ==
    /\ step = "save_extracted_data"
    /\ output_file' = Written(JsonTable(extracted_data.value))
    /\ extracted_data' = Value(EmptyDict)
    /\ players_data' = EmptyDict
    /\ step' = "complete"
    /\ UNCHANGED <<headers, csv_rows, processed_rows, pc, progress,
                   player_col_idx, stat_col_indices, position_filter, row_num,
                   pandasVars, csv_header, sideVars, detected, row_count, sample_data, summary_file>>

SaveExtractedData ==
    /\ step = "save_extracted_data"
    /\ output_file' = Written(JsonTable(extracted_data.value))
    /\ step' = "complete"
    /\ UNCHANGED <<headers, csv_rows, processed_rows, pc, progress, streamVars,
                   pandasVars, csv_header, sideVars, detected, row_count, sample_data,
                   extracted_data, summary_file>>

\* lines 147-149, 232-236: writing raises, False is returned and not looked
\* at, main ends
SaveExtractedDataFails ==
    /\ step = "save_extracted_data"
    /\ output_file' \in {Absent, Partial}
    /\ step' = "complete"
    /\ UNCHANGED <<headers, csv_rows, processed_rows, pc, progress, streamVars,
                   pandasVars, csv_header, sideVars, detected, row_count, sample_data,
                   extracted_data, summary_file>>

MainNext ==
    \/ AnalyzeFile
    \/ AnalyzeFileFails
    \/ FindPlayerColumns
    \/ SelectColumns
    \/ SelectionInterrupted
    \/ StreamNext
    \/ StreamReadFails
    \/ ExtractReturns
    \/ ExtractRaises
    \/ SaveExtractedData
    \/ SaveExtractedDataFails

\* main() up to the selection of the columns, on files of other headers
MaxHeaders == 3

DetectNames == {"name", "Player", "points", "pos_rank", "player_rank", "team"}

DetectHeaders == UNION {[1..k -> DetectNames] : k \in 0..MaxHeaders}

InitDetect ==
    /\ csv_header \in {[read |-> "ok", row |-> h] : h \in DetectHeaders}
    /\ csv_rows = <<>>
    /\ MainStart
    /\ StreamIdle
    /\ PandasIdle

NextDetect ==
    \/ AnalyzeFile
    \/ FindPlayerColumns
    \/ SelectionInterrupted

SpecDetect == InitDetect /\ [][NextDetect]_vars

(***************************************************************************)
(* main() of process_large_csv_pandas 2.py                                 *)
(***************************************************************************)
\* PandasCSVProcessor(csv_path): chunk_size=50000
DefaultChunkSize == 50000

\* read_csv(nrows=1000)
SampleRows == 1000

\* main() starts on a file that exists: PandasCSVProcessor(csv_path)
PandasMainStart ==
    /\ step = "analyze_file_structure"
    /\ headers = <<>>
    /\ chunk_size = DefaultChunkSize
    /\ player_col = None
    /\ stat_cols = <<>>
    /\ position_col = None
    /\ team_col = None
    /\ year_col = None
    /\ filters = EmptyDict
    /\ chunk_num = 0
    /\ all_data = <<>>
    /\ row_count = 0
    /\ sample_data = NoneValue
    /\ detected = NothingDetected
    /\ SideIdle
    /\ extracted_data = NoneValue
    /\ output_file = Absent
    /\ summary_file = Absent
    /\ processed_rows = 0
    /\ progress = <<>>
    /\ pc = "idle"

PandasMainInit ==
    /\ csv_header \in HeaderReads({PandasHeaders})
    /\ csv_rows \in IF csv_header.read = "empty" THEN {<<>>} ELSE PandasFiles
    /\ PandasMainStart

\* analyze_file_structure returns True: the sample frame is kept, the rows
\* are counted (a failure of the counting pass leaves total_rows)
AnalyzeFileStructure ==
    /\ step = "analyze_file_structure"
    /\ csv_header.read = "ok"
    /\ headers' = csv_header.row
    /\ sample_data' = Value(SubSeq(csv_rows, 1,
                            IF Len(csv_rows) < SampleRows THEN Len(csv_rows)
                            ELSE SampleRows))
    /\ row_count' \in {Len(csv_rows), row_count}
    /\ step' = "show_sample_data"
    /\ UNCHANGED <<csv_rows, processed_rows, pc, progress, streamVars, pandasVars,
                   csv_header, sideVars, detected, extracted_data, output_file, summary_file>>

\* analyze_file_structure returns False (lines 55-57), main returns (line 321)
AnalyzeFileStructureFails ==
    /\ step = "analyze_file_structure"
    /\ csv_header.read # "ok"
    /\ step' = "return"
    /\ UNCHANGED <<headers, csv_rows, processed_rows, pc, progress, streamVars,
                   pandasVars, csv_header, sideVars, detected, row_count, sample_data,
                   extracted_data, output_file, summary_file>>

\* line 325: the sample is printed
ShowSampleData ==
    /\ step = "show_sample_data"
    /\ step' = "interactive_setup"
    /\ UNCHANGED <<headers, csv_rows, processed_rows, pc, progress, streamVars,
                   pandasVars, csv_header, sideVars, detected, row_count, sample_data,
                   extracted_data, output_file, summary_file>>

\* the names the operator may type for the player column
TypedNames == {"name", "player"}

\* lines 242-298, 330 and 337-339, 131-153: the columns are detected, the
\* operator chooses among them (a single detected player column is taken as
\* it is, the first position and team columns are taken, all or none of the
\* stat columns, a filter only with a position column; no year column is
\* passed), and extract_fantasy_data is entered
InteractiveSetup ==
    /\ step = "interactive_setup"
    /\ detected' = detect_player_columns
    /\ player_col' \in IF Len(detected'.player_columns) = 1
                       THEN {detected'.player_columns[1]}
                       ELSE IF detected'.player_columns # <<>>
                       THEN TypedNames \cup {detected'.player_columns[1]}
                       ELSE TypedNames
    /\ stat_cols' \in {<<>>, detected'.stat_columns}
    /\ position_col' = IF detected'.position_columns # <<>>
                       THEN detected'.position_columns[1] ELSE None
    /\ team_col' = IF detected'.team_columns # <<>>
                   THEN detected'.team_columns[1] ELSE None
    /\ filters' \in IF position_col' # None THEN FilterPool ELSE {EmptyDict}
    /\ chunk_num' = 0
    /\ all_data' = <<>>
    /\ processed_rows' = 0
    /\ progress' = <<>>
    /\ pc' = "chunks"
    /\ step' = "extract_fantasy_data"
    /\ UNCHANGED <<headers, csv_rows, streamVars, chunk_size, year_col,
                   csv_header, sideVars, row_count, sample_data, extracted_data,
                   output_file, summary_file>>

\* lines 331-333: KeyboardInterrupt at a prompt, main returns
SetupInterrupted ==
    /\ step = "interactive_setup"
    /\ step' = "return"
    /\ UNCHANGED <<headers, csv_rows, processed_rows, pc, progress, streamVars,
                   pandasVars, csv_header, sideVars, detected, row_count, sample_data,
                   extracted_data, output_file, summary_file>>

\* lines 154, 182-184: reading a chunk raises, the except clause returns None
PandasReadFails ==
    /\ pc = "chunks"
    /\ UsecolsMatch(Columns)
    /\ chunk_num < NumChunks(csv_rows, chunk_size)
    /\ pc' = "io_failed"
    /\ UNCHANGED <<headers, csv_rows, processed_rows, progress, streamVars,
                   pandasVars, mainVars>>

\* line 337: extract_fantasy_data has returned all_data
FantasyReturns ==
    /\ step = "extract_fantasy_data"
    /\ pc = "returned"
    /\ extracted_data' = Value(all_data)
    /\ step' = "if not extracted_data"
    /\ UNCHANGED <<headers, csv_rows, processed_rows, pc, progress, streamVars,
                   pandasVars, csv_header, sideVars, detected, row_count, sample_data, output_file,
                   summary_file>>

\* line 337: extract_fantasy_data has returned None
FantasyReturnsPartial ==
    /\ step = "extract_fantasy_data"
    /\ pc \in {"failed", "io_failed"}
    /\ extracted_data' = Value(all_data)
    /\ step' = "if not extracted_data"
    /\ UNCHANGED <<headers, csv_rows, processed_rows, pc, progress, streamVars,
                   pandasVars, csv_header, sideVars, detected, row_count, sample_data, output_file,
                   summary_file>>

FantasyReturnsNone ==
    /\ step = "extract_fantasy_data"
    /\ pc \in {"failed", "io_failed"}
    /\ extracted_data' = NoneValue
    /\ step' = "if not extracted_data"
    /\ UNCHANGED <<headers, csv_rows, processed_rows, pc, progress, streamVars,
                   pandasVars, csv_header, sideVars, detected, row_count, sample_data, output_file,
                   summary_file>>

\* `data is None` in the place of `not data`
FalsyNoneOnly(data) == data.none

\* not data: None or an empty list
Falsy(data) == data.none \/ data.value = <<>>

\* lines 341-343: nothing was extracted, main returns
NoDataExtracted ==
    /\ step = "if not extracted_data"
    /\ Falsy(extracted_data)
    /\ step' = "return"
    /\ UNCHANGED <<headers, csv_rows, processed_rows, pc, progress, streamVars,
                   pandasVars, csv_header, sideVars, detected, row_count, sample_data,
                   extracted_data, output_file, summary_file>>

\* lines 347-348: the position distribution is printed
AnalyzeFantasyPositions ==
    /\ step = "if not extracted_data"
    /\ ~Falsy(extracted_data)
    /\ step' = "save_for_integration"
    /\ UNCHANGED <<headers, csv_rows, processed_rows, pc, progress, streamVars,
                   pandasVars, csv_header, sideVars, detected, row_count, sample_data,
                   extracted_data, output_file, summary_file>>

\* the keys of a record in column order: list(data[0].keys())
KeysInOrder(record) == SelectSeq(headers, LAMBDA h : h \in DOMAIN record)

\* lines 218-223: the summary of a list of records
SummaryOfAllButOne(data) ==
    [extraction_date |-> "datetime.now().isoformat()",
     total_records |-> Len(data) - 1,
     columns |-> IF data # <<>> THEN KeysInOrder(data[1]) ELSE <<>>,
     sample_record |-> IF data # <<>> THEN Value(JsonRecord(data[1]))
                       ELSE NoneValue]

SummaryOf(data) ==
    [extraction_date |-> "datetime.now().isoformat()",
     total_records |-> Len(data),
     columns |-> IF data # <<>> THEN KeysInOrder(data[1]) ELSE <<>>,
     sample_record |-> IF data # <<>> THEN Value(JsonRecord(data[1]))
                       ELSE NoneValue]

\* lines 205-214: the records are written to output_path; nothing is
\* written for no data
SaveRawData ==
    /\ step = "save_for_integration"
    /\ IF Falsy(extracted_data)
       THEN /\ step' = "complete"
            /\ UNCHANGED output_file
       ELSE /\ output_file' = Written(JsonList(extracted_data.value))
            /\ step' = "write summary"
    /\ UNCHANGED <<headers, csv_rows, processed_rows, pc, progress, streamVars,
                   pandasVars, csv_header, sideVars, detected, row_count, sample_data,
                   extracted_data, summary_file>>

\* lines 211-212, 231-233: writing the records raises, False is returned
\* and not looked at, main ends
SaveRawDataFails ==
    /\ step = "save_for_integration"
    /\ ~Falsy(extracted_data)
    /\ output_file' \in {Absent, Partial}
    /\ step' = "complete"
    /\ UNCHANGED <<headers, csv_rows, processed_rows, pc, progress, streamVars,
                   pandasVars, csv_header, sideVars, detected, row_count, sample_data,
                   extracted_data, summary_file>>

\* lines 216-229: the summary is written to summary_path, main ends
SaveSummary ==
    /\ step = "write summary"
    /\ summary_file' = Written(SummaryOf(extracted_data.value))
    /\ step' = "complete"
    /\ UNCHANGED <<headers, csv_rows, processed_rows, pc, progress, streamVars,
                   pandasVars, csv_header, sideVars, detected, row_count, sample_data,
                   extracted_data, output_file>>

\* lines 225-226, 231-233: writing the summary raises, main ends
SaveSummaryFails ==
    /\ step = "write summary"
    /\ summary_file' \in {Absent, Partial}
    /\ step' = "complete"
    /\ UNCHANGED <<headers, csv_rows, processed_rows, pc, progress, streamVars,
                   pandasVars, csv_header, sideVars, detected, row_count, sample_data,
                   extracted_data, output_file>>

PandasMainNext ==
    \/ AnalyzeFileStructure
    \/ AnalyzeFileStructureFails
    \/ ShowSampleData
    \/ InteractiveSetup
    \/ SetupInterrupted
    \/ PandasNext
    \/ PandasReadFails
    \/ FantasyReturns
    \/ FantasyReturnsNone
    \/ NoDataExtracted
    \/ AnalyzeFantasyPositions
    \/ SaveRawData
    \/ SaveRawDataFails
    \/ SaveSummary
    \/ SaveSummaryFails

\* the CSV processors are not running
CsvIdle ==
    /\ headers = <<>>
    /\ csv_rows = <<>>
    /\ processed_rows = 0
    /\ progress = <<>>
    /\ pc = "idle"
    /\ step = "call"
    /\ csv_header = [read |-> "ok", row |-> <<>>]
    /\ row_count = 0
    /\ sample_data = NoneValue
    /\ detected = NothingDetected
    /\ extracted_data = NoneValue
    /\ output_file = Absent
    /\ summary_file = Absent
    /\ StreamIdle
    /\ PandasIdle

csvVars ==
    <<headers, csv_rows, processed_rows, pc, progress, streamVars, pandasVars,
      step, csv_header, row_count, sample_data, detected, extracted_data,
      output_file, summary_file>>

(***************************************************************************)
(* split_ohio.py: split_path_commands                                      *)
(***************************************************************************)
\* largest number of path commands
MaxCommands == 30

\* line 112: num_chunks = 12
NumChunksOfMain == 12

\* math.ceil(a / b) for a >= 0, b > 0
Ceil(a, b) == (a + b - 1) \div b

\* lines 73-74: chunk_size = math.ceil(total_commands / num_chunks)
split_chunk_size == Ceil(Len(commands), num_chunks)

\* commands[i:j]
Slice(seq, i, j) == SubSeq(seq, i + 1, IF j < Len(seq) THEN j ELSE Len(seq))

\* lines 125, 129: main's call, and calls with other arguments
SplitCall ==
    /\ commands \in {[k \in 1..n |-> k] : n \in 0..MaxCommands}
    /\ num_chunks \in {1, 2, 3, 4, 5, 7, NumChunksOfMain}
    /\ split_i = 0
    /\ chunks = <<>>
    /\ split_pc = "loop"

\* line 77: range() with step 0 raises ValueError
SplitRaises ==
    /\ split_pc = "loop"
    /\ split_chunk_size = 0
    /\ split_pc' = "raised"
    /\ UNCHANGED <<commands, num_chunks, split_i, chunks, rankVars, csvVars>>

\* lines 77-79: one turn of the loop
SplitAppend ==
    /\ split_pc = "loop"
    /\ split_chunk_size # 0
    /\ split_i < Len(commands)
    /\ chunks' = Append(chunks, Slice(commands, split_i, split_i + split_chunk_size))
    /\ split_i' = split_i + split_chunk_size
    /\ UNCHANGED <<commands, num_chunks, split_pc, rankVars, csvVars>>

\* line 81: return chunks
SplitReturn ==
    /\ split_pc = "loop"
    /\ split_chunk_size # 0
    /\ split_i >= Len(commands)
    /\ split_pc' = "returned"
    /\ UNCHANGED <<commands, num_chunks, split_i, chunks, rankVars, csvVars>>

SplitNext == SplitRaises \/ SplitAppend \/ SplitReturn

InitSplit == SplitCall /\ RankIdle /\ CsvIdle

SpecSplit == InitSplit /\ [][SplitNext]_vars

(***************************************************************************)
(* clean_rankings.py: the parsing loop                                     *)
(***************************************************************************)
\* largest number of lines of raw_data
MaxLines == 4

UpperLetters ==
    {"A", "B", "C", "D", "E", "F", "G", "H", "I", "J", "K", "L", "M", "N", "O",
     "P", "Q", "R", "S", "T", "U", "V", "W", "X", "Y", "Z"}

LowerLetters == {Lower(c) : c \in UpperLetters}

\* [A-Za-z'\.\-\s]
NameChars == UpperLetters \cup LowerLetters \cup {"'", ".", "-"} \cup Whitespace

\* lines 143-150: the words of the lines that are passed over
SkipWords ==
    { <<"o", "u", "t", " ", "o", "f", " ", "5", " ", "s", "t", "a", "r", "s">>,
      <<"C", "o", "a", "c", "h">>, <<"T", "i", "e", "r">>,
      <<"C", "u", "s", "t", "o", "m", "i", "z", "e">> }

\* lines 141-150: `not line` or one of the words is in the line
Skipped(txt) == txt = <<>> \/ \E w \in SkipWords : IsSubstring(w, txt)

\* line 152: re.match(r'^(\d+)\s*$', line) on a stripped line
rank_match(txt) == txt # <<>> /\ \A i \in 1..Len(txt) : txt[i] \in Digits

\* the position of the first "(" of the line, 0 if there is none
FirstParen(txt) ==
    IF Contains(txt, "(")
    THEN CHOOSE p \in 1..Len(txt) :
             txt[p] = "(" /\ \A q \in 1..(p - 1) : txt[q] # "("
    ELSE 0

\* the tail of the line after the team: nothing, or \s*O
TailOk(tail) ==
    IF tail = <<>> THEN TRUE
    ELSE /\ tail[Len(tail)] = "O"
         /\ \A i \in 1..(Len(tail) - 1) : tail[i] \in Whitespace

\* line 157: the line is a name of [A-Za-z'.\-\s]+ (with its optional
\* suffix), a team of n capitals in parentheses, an optional O
PlayerMatchWith(txt, n) ==
    LET p == FirstParen(txt)
    IN  /\ p > 1
        /\ \A q \in 1..(p - 1) : txt[q] \in NameChars
        /\ Len(txt) >= p + n + 1
        /\ \A q \in (p + 1)..(p + n) : txt[q] \in UpperLetters
        /\ txt[p + n + 1] = ")"
        /\ TailOk(SubSeq(txt, p + n + 2, Len(txt)))

\* [A-Z]{2,3}: the number of capitals of the team
TeamLen(txt) == IF PlayerMatchWith(txt, 2) THEN 2 ELSE 3

player_match(txt) == PlayerMatchWith(txt, 2) \/ PlayerMatchWith(txt, 3)

\* player_match.group(1).strip()
PlayerName(txt) == strip(SubSeq(txt, 1, FirstParen(txt) - 1))

\* player_match.group(2)
PlayerTeam(txt) ==
    SubSeq(txt, FirstParen(txt) + 1, FirstParen(txt) + TeamLen(txt))

\* line 161: f"{current_rank} {name} ({team})"
Emitted(rank, txt) ==
    rank \o <<" ">> \o PlayerName(txt) \o <<" ", "(">> \o PlayerTeam(txt)
      \o <<")">>

\* line 140: line = line.strip()
line == strip(lines[line_num + 1])

RankLine7 == <<"7">>
RankLine12 == <<"1", "2", " ">>
PlayerLine == <<"A", "l", " ", "B", "o", " ", "(", "N", "O", ")">>
PlayerLineO ==
    <<" ", "D", ".", "J", ".", " ", "I", "I", "(", "B", "U", "F", ")", " ", "O">>
TierLine == <<"T", "i", "e", "r", " ", "1">>
CoachLine == <<"C", "o", "a", "c", "h", " ", "(", "N", "O", ")">>
StatLine == <<"Q", "B", "7", "2", "\t", "9">>

LinePool ==
    {RankLine7, RankLine12, PlayerLine, PlayerLineO, TierLine, CoachLine,
     StatLine, <<>>}

\* lines 135-137
RankStart ==
    /\ lines \in UNION {[1..n -> LinePool] : n \in 0..MaxLines}
    /\ line_num = 0
    /\ current_rank = NoneValue
    /\ results = <<>>
    /\ rank_pc = "loop"

\* lines 141-150: continue
SkipLine ==
    /\ rank_pc = "loop"
    /\ line_num < Len(lines)
    /\ Skipped(line)
    /\ line_num' = line_num + 1
    /\ UNCHANGED <<lines, current_rank, results, rank_pc, splitVars, csvVars>>

\* lines 152-155: a rank is kept, continue
ReadRank ==
    /\ rank_pc = "loop"
    /\ line_num < Len(lines)
    /\ ~Skipped(line)
    /\ rank_match(line)
    /\ current_rank' = Value(line)
    /\ line_num' = line_num + 1
    /\ UNCHANGED <<lines, results, rank_pc, splitVars, csvVars>>

\* a player is emitted and the rank is kept
EmitPlayerKeepsRank ==
    /\ rank_pc = "loop"
    /\ line_num < Len(lines)
    /\ ~Skipped(line)
    /\ ~rank_match(line)
    /\ player_match(line)
    /\ ~current_rank.none
    /\ results' = Append(results, Emitted(current_rank.value, line))
    /\ line_num' = line_num + 1
    /\ UNCHANGED <<lines, current_rank, rank_pc, splitVars, csvVars>>

\* lines 157-162: a player with a pending rank is emitted
EmitPlayer ==
    /\ rank_pc = "loop"
    /\ line_num < Len(lines)
    /\ ~Skipped(line)
    /\ ~rank_match(line)
    /\ player_match(line)
    /\ ~current_rank.none
    /\ results' = Append(results, Emitted(current_rank.value, line))
    /\ current_rank' = NoneValue
    /\ line_num' = line_num + 1
    /\ UNCHANGED <<lines, rank_pc, splitVars, csvVars>>

\* line 158: the condition is false, the line leaves no trace
PassLine ==
    /\ rank_pc = "loop"
    /\ line_num < Len(lines)
    /\ ~Skipped(line)
    /\ ~rank_match(line)
    /\ ~(player_match(line) /\ ~current_rank.none)
    /\ line_num' = line_num + 1
    /\ UNCHANGED <<lines, current_rank, results, rank_pc, splitVars, csvVars>>

\* lines 164-165: the results are printed
PrintResults ==
    /\ rank_pc = "loop"
    /\ line_num = Len(lines)
    /\ rank_pc' = "printed"
    /\ UNCHANGED <<lines, line_num, current_rank, results, splitVars, csvVars>>

RankNext ==
    \/ SkipLine
    \/ ReadRank
    \/ EmitPlayer
    \/ PassLine
    \/ PrintResults

InitRank == RankStart /\ SplitIdle /\ CsvIdle

SpecRank == InitRank /\ [][RankNext]_vars

(***************************************************************************)
(* Specifications: one run of the streaming extractor (Spec), one run of   *)
(* the chunked extractor (SpecPandas).                                     *)
(***************************************************************************)
Init == StreamInit /\ PandasIdle /\ DirectCall

\* extract_player_data called with a position_filter
PositionFilters == {NoneValue, Value(<<QB, NYG>>)}

InitFilter ==
    /\ StreamCall
    /\ position_filter \in PositionFilters
    /\ PandasIdle
    /\ DirectCall

SpecFilter == InitFilter /\ [][StreamNext]_vars

InitDuplicate ==
    /\ headers = DuplicateHeaders
    /\ csv_rows \in Files
    /\ player_col_idx \in 0..(Len(headers) - 1)
    /\ stat_col_indices \in StatSelections
    /\ position_filter = NoneValue
    /\ row_num = 0
    /\ players_data = EmptyDict
    /\ processed_rows = 0
    /\ progress = <<>>
    /\ pc = "loop"
    /\ PandasIdle
    /\ DirectCall

SpecDuplicate == InitDuplicate /\ [][StreamNext]_vars

Next == StreamNext

Spec == Init /\ [][Next]_vars

InitPandas == PandasInit /\ StreamIdle /\ DirectCall

SpecPandas == InitPandas /\ [][PandasNext]_vars

\* one run of either extractor
InitBoth == Init \/ InitPandas

NextBoth == StreamNext \/ PandasNext

SpecBoth == InitBoth /\ [][NextBoth]_vars

\* one run of main() of process_large_csv 2.py
InitMain == MainInit /\ StreamIdle /\ PandasIdle

SpecMain == InitMain /\ [][MainNext]_vars

\* one run of main() of process_large_csv_pandas 2.py
InitPandasMain == PandasMainInit /\ StreamIdle

SpecPandasMain == InitPandasMain /\ [][PandasMainNext]_vars

\* save_for_integration called with no data
InitSave ==
    /\ step = "save_for_integration"
    /\ extracted_data \in {NoneValue, Value(<<>>)}
    /\ headers = PandasHeaders
    /\ csv_rows = <<>>
    /\ csv_header = [read |-> "ok", row |-> headers]
    /\ row_count = 0
    /\ sample_data = NoneValue
    /\ detected = NothingDetected
    /\ SideIdle
    /\ output_file = Absent
    /\ summary_file = Absent
    /\ processed_rows = 0
    /\ progress = <<>>
    /\ pc = "idle"
    /\ PandasIdle
    /\ StreamIdle

\* a run of main(), or a call of save_for_integration with no data
InitPersist == InitPandasMain \/ InitSave

SpecPersist == InitPersist /\ [][PandasMainNext]_vars

\* one run of either main()
InitMains == InitMain \/ InitPandasMain

NextMains == MainNext \/ PandasMainNext

SpecMains == InitMains /\ [][NextMains]_vars

\* main() of process_large_csv_pandas 2.py up to the choice of the columns,
\* on files of other headers
FullName == Alice \o <<" ">> \o Bo

ClassifyNames ==
    {"name", "pos", "points", "team", "Player", "player_team", "team_pos",
     "pos_rank", "team_pts", "season", "Week", "date", "id"}

ClassifyValues == {FullName, Alice, <<" ">> \o Bo, <<"7">>, <<>>}

\* the files of one column with at most n rows of the given cells
OneColumnFiles(cells, n) ==
    UNION {[1..k -> {<<c>> : c \in cells}] : k \in 0..n}

ClassifyCases ==
    {[header |-> <<h>>, rows |-> f] :
        h \in ClassifyNames, f \in OneColumnFiles(ClassifyValues, 2)}
      \cup {[header |-> <<"name">>, rows |-> f] :
               f \in OneColumnFiles({FullName, Alice, <<>>}, MaxSampleRows)}
      \cup {[header |-> h, rows |-> f] :
               h \in {<<"name", "pos">>, <<"season", "team_pos">>,
                      <<"pos_rank", "date">>, <<"player_team", "name">>,
                      <<"pos", "team_pos">>},
               f \in {<<>>, << <<FullName, <<"7">>>> >>, << <<Alice, QB>> >>}}

InitClassify ==
    /\ \E case \in ClassifyCases :
           /\ csv_header = [read |-> "ok", row |-> case.header]
           /\ csv_rows = case.rows
    /\ PandasMainStart
    /\ StreamIdle

NextClassify ==
    \/ AnalyzeFileStructure
    \/ ShowSampleData
    \/ InteractiveSetup
    \/ SetupInterrupted

SpecClassify == InitClassify /\ [][NextClassify]_vars

\* a caller that, like main(), calls an extractor, keeps what it returns and
\* saves it, on a processor of any chunk size
CallerAt(call) ==
    /\ step = call
    /\ csv_header = [read |-> "ok", row |-> headers]
    /\ row_count = 0
    /\ sample_data = NoneValue
    /\ detected = NothingDetected
    /\ SideIdle
    /\ extracted_data = NoneValue
    /\ output_file = Absent
    /\ summary_file = Absent

InitCallers ==
    \/ StreamInit /\ PandasIdle /\ CallerAt("extract_player_data")
    \/ PandasInit /\ StreamIdle /\ CallerAt("extract_fantasy_data")

NextCallers ==
    \/ StreamNext
    \/ StreamReadFails
    \/ ExtractReturns
    \/ ExtractRaises
    \/ SaveExtractedData
    \/ SaveExtractedDataFails
    \/ PandasNext
    \/ PandasReadFails
    \/ FantasyReturns
    \/ FantasyReturnsNone
    \/ NoDataExtracted
    \/ AnalyzeFantasyPositions
    \/ SaveRawData
    \/ SaveRawDataFails
    \/ SaveSummary
    \/ SaveSummaryFails

SpecCallers == InitCallers /\ [][NextCallers]_vars

\* one run of the chunked extractor over a longer file, one row per chunk
ProgressRowPool == { <<Alice, QB, <<"1">>>>, <<<<>>, QB, <<"7">>>> }

ProgressFiles == UNION {[1..n -> ProgressRowPool] : n \in 0..MaxProgressRows}

InitProgress ==
    /\ headers = PandasHeaders
    /\ csv_rows \in ProgressFiles
    /\ chunk_size = 1
    /\ player_col \in {"name", "player"}
    /\ stat_cols = <<"points">>
    /\ position_col = None
    /\ team_col = None
    /\ year_col = None
    /\ filters = EmptyDict
    /\ chunk_num = 0
    /\ all_data = <<>>
    /\ processed_rows = 0
    /\ progress = <<>>
    /\ pc = "chunks"
    /\ StreamIdle
    /\ DirectCall

SpecProgress == InitProgress /\ [][PandasNext]_vars


(***************************************************************************)
(* What the claims say of the rows of the file.                            *)
(***************************************************************************)
\* the number of rows of the file in the chunks processed so far
RowsRead ==
    IF chunk_num * chunk_size <= Len(csv_rows) THEN chunk_num * chunk_size
    ELSE Len(csv_rows)

\* the position filter is in force
PositionFilterOn ==
    /\ DOMAIN filters # {}
    /\ Truthy(position_col)
    /\ "positions" \in DOMAIN filters

\* the i-th row has a name and its position is accepted
Survives(i) ==
    /\ ~IsNA(Token(csv_rows[i], player_col))
    /\ strip(Token(csv_rows[i], player_col)) # <<>>
    /\ PositionFilterOn => Text(Token(csv_rows[i], position_col)) \in filters["positions"]

\* the entity keys of a list of records
Keys(data) == {data[i][player_col] : i \in 1..Len(data)}

(***************************************************************************)
(* Claims about the streaming extractor.                                   *)
(***************************************************************************)
\* the i-th row has been consumed and was stored: it reaches the name column
\* and every projected column, and its trimmed name is not empty
Stored(i) ==
    /\ i \in 1..row_num
    /\ \A c \in {player_col_idx} \cup {stat_col_indices[j] : j \in 1..Len(stat_col_indices)} :
           Len(csv_rows[i]) > c
    /\ strip(csv_rows[i][player_col_idx + 1]) # <<>>

KeyOf(i) == strip(csv_rows[i][player_col_idx + 1])

\* the last stored row whose trimmed name is k
IsLastRowOf(i, k) ==
    /\ Stored(i)
    /\ KeyOf(i) = k
    /\ \A j \in (i + 1)..row_num : ~(Stored(j) /\ KeyOf(j) = k)

\* C1: last-write-wins per key at whole-record granularity: the table's keys
\* are the trimmed names of the stored rows, and the record of each key is
\* the attributes built from the last stored row of that key alone.
C1_LastWriteWins ==
    /\ DOMAIN players_data = {KeyOf(i) : i \in {n \in 1..row_num : Stored(n)}}
    /\ \A k \in DOMAIN players_data :
           \E i \in 1..row_num :
               /\ IsLastRowOf(i, k)
               /\ players_data[k] = player_stats(csv_rows[i])

\* a key stored twice, the two rows building different attributes
C1_Witness ==
    /\ pc = "returned"
    /\ \E i, j \in 1..row_num :
           /\ i < j
           /\ Stored(i)
           /\ IsLastRowOf(j, KeyOf(i))
           /\ player_stats(csv_rows[i]) # player_stats(csv_rows[j])

\* the number of rows consumed so far that were not stored
NumSkipped == Cardinality({i \in 1..row_num : ~Stored(i)})

\* the counters the extraction loop keeps
Counters == <<row_num, processed_rows>>

\* the step consumes a row whose name cell is empty or whitespace-only
EmptyKeyStep ==
    /\ row_num' = row_num + 1
    /\ Len(row) > player_col_idx
    /\ \A i \in 1..Len(row[player_col_idx + 1]) :
           row[player_col_idx + 1][i] \in Whitespace

OnlyDigits(s) == s # <<>> /\ \A i \in 1..Len(s) : s[i] \in Digits

DigitsPointDigits(s) ==
    \E p \in 2..(Len(s) - 1) :
        /\ s[p] = "."
        /\ \A i \in (1..Len(s)) \ {p} : s[i] \in Digits

NotNumeric(s) == ~int_parses(s) /\ ~float_parses(s)

\* the place of the fractional point of s
PointOf(s) == CHOOSE p \in 1..Len(s) : s[p] = "."

\* what the specification stores for a trimmed cell of a basic shape
BasicShapeValue(s) ==
    IF OnlyDigits(s) THEN Integer(DecimalValue(s))
    ELSE IF DigitsPointDigits(s)
    THEN Float(DecimalValue(SubSeq(s, 1, PointOf(s) - 1) \o SubSeq(s, PointOf(s) + 1, Len(s))),
               PointOf(s) - Len(s))
    ELSE Text(s)

\* the j-th projected column is the last one stored under its header name
FinalColumn(j) ==
    \A j2 \in (j + 1)..Len(stat_col_indices) :
        PyIndex(headers, stat_col_indices[j2]) # PyIndex(headers, stat_col_indices[j])

\* the trimmed cell of the j-th projected column in row i
TrimmedCell(i, j) == strip(PyIndex(csv_rows[i], stat_col_indices[j]))

\* C6: a trimmed cell of decimal digits is stored as the integer it denotes,
\* digits with one fractional point as the float, a non-numeric cell as the
\* same text.
C6_BasicShapes ==
    \A k \in DOMAIN players_data :
        \A i \in 1..row_num :
            IsLastRowOf(i, k) =>
                \A j \in 1..Len(stat_col_indices) :
                    LET cell == TrimmedCell(i, j)
                    IN  (/\ FinalColumn(j)
                         /\ OnlyDigits(cell) \/ DigitsPointDigits(cell) \/ NotNumeric(cell))
                        => players_data[k][PyIndex(headers, stat_col_indices[j])]
                               = BasicShapeValue(cell)

\* one table holding an integer, a float and a text, each from its shape
C6_Witness ==
    /\ pc = "returned"
    /\ \E k \in DOMAIN players_data :
           \E i \in 1..row_num :
               /\ IsLastRowOf(i, k)
               /\ \E j \in 1..Len(stat_col_indices) :
                      FinalColumn(j) /\ NotNumeric(TrimmedCell(i, j))
    /\ \E k \in DOMAIN players_data :
           \E i \in 1..row_num :
               /\ IsLastRowOf(i, k)
               /\ \E j \in 1..Len(stat_col_indices) :
                      FinalColumn(j) /\ OnlyDigits(TrimmedCell(i, j))
    /\ \E k \in DOMAIN players_data :
           \E i \in 1..row_num :
               /\ IsLastRowOf(i, k)
               /\ \E j \in 1..Len(stat_col_indices) :
                      FinalColumn(j) /\ DigitsPointDigits(TrimmedCell(i, j))

\* the ordered attempt chain of the specification: integer, else float, else text
ReferenceChain(s) ==
    IF int_parses(s) THEN Integer(int_value(s))
    ELSE IF float_parses(s) THEN float_value(s)
    ELSE Text(s)

\* C7: for every cell the stored value equals the ordered attempt chain
\* integer, else float (also float forms without a point), else trimmed text.
C7_OrderedAttemptChain ==
    \A k \in DOMAIN players_data :
        \A i \in 1..row_num :
            IsLastRowOf(i, k) =>
                \A j \in 1..Len(stat_col_indices) :
                    FinalColumn(j) =>
                        players_data[k][PyIndex(headers, stat_col_indices[j])]
                            = ReferenceChain(TrimmedCell(i, j))

\* the header names of the projected columns
ProjectedNames ==
    {PyIndex(headers, stat_col_indices[j]) : j \in 1..Len(stat_col_indices)}

\* the run of the scenario: name,team,points, the three rows, key column
\* name, projected columns team and points
Scenario ==
    /\ headers = ScenarioHeaders
    /\ csv_rows = ScenarioRows
    /\ player_col_idx = 0
    /\ stat_col_indices = <<1, 2>>
    /\ pc = "returned"

C9_NeverRaises == ~(pc = "raised" /\ Len(row) < Len(headers))

\* the largest of the name column index and the projected column indices
LargestIndex ==
    LET all == {player_col_idx} \cup
               {stat_col_indices[j] : j \in 1..Len(stat_col_indices)}
    IN  CHOOSE m \in all : \A c \in all : c <= m

\* the next row has no more fields than the largest index
NextRowIsShort ==
    /\ pc = "loop"
    /\ row_num < Len(csv_rows)
    /\ Len(row) <= LargestIndex

SameValue(a, b) ==
    IF a.tag = "Text" \/ b.tag = "Text" THEN a = b
    ELSE a.num = b.num /\ a.exp = b.exp /\ a.text = b.text

\* C4: for the same file, columns and filter the returned list is the same
\* for every chunk size.
C4_ChunkSizeIndependent ==
    pc = "returned" =>
        \A size \in 1..MaxChunk :
            LET other == FantasyData(csv_rows, size, filters)
            IN  /\ Len(other) = Len(all_data)
                /\ \A i \in 1..Len(other) :
                       \A c \in Columns : SameValue(other[i][c], all_data[i][c])

\* C5: with accepted positions A a subset of B, every key extracted with A is
\* extracted with B, and every key extracted with a filter is extracted
\* without one.
C5_FilterMonotone ==
    (pc = "returned" /\ "positions" \in DOMAIN filters) =>
        /\ \A wider \in FilterPool :
               ("positions" \in DOMAIN wider
                  /\ filters["positions"] \subseteq wider["positions"])
               => Keys(all_data)
                    \subseteq Keys(FantasyData(csv_rows, chunk_size, wider))
        /\ Keys(all_data) \subseteq Keys(FantasyData(csv_rows, chunk_size, EmptyDict))

\* the narrow filter drops a key the wider one keeps, and the wider one drops
\* a key the unfiltered run keeps
C5_Witness ==
    /\ pc = "returned"
    /\ PositionFilterOn
    /\ all_data # <<>>
    /\ \E wider \in FilterPool :
           /\ "positions" \in DOMAIN wider
           /\ filters["positions"] \subseteq wider["positions"]
           /\ Keys(all_data) # Keys(FantasyData(csv_rows, chunk_size, wider))
    /\ Keys(all_data) # Keys(FantasyData(csv_rows, chunk_size, EmptyDict))

(***************************************************************************)
(* Empty files, and the row filter of the chunked extractor.               *)
(***************************************************************************)
\* the chunked extractor is the one running
PandasRun == player_col # None

\* every column the chunked extractor asks for is a column of the header
SelectionInHeader == \A c \in Columns : \E i \in 1..Len(headers) : headers[i] = c

\* C11: for a file with a header and no data rows the extraction ends
\* normally with an empty table and no record: it never raises, it fails
\* only for a selected column the header does not have, the next step is
\* always there until it has returned, and the result is empty.
C11_EmptyFileEmptyTable ==
    csv_rows = <<>> =>
        /\ pc # "raised"
        /\ pc = "failed" => ~SelectionInHeader
        /\ pc = "loop" => ENABLED ReturnPlayersData
        /\ (pc = "chunks" /\ SelectionInHeader) =>
               ENABLED ProcessChunk \/ ENABLED ReturnAllData
        /\ players_data = EmptyDict
        /\ all_data = <<>>
        /\ processed_rows = 0
        /\ (PandasRun /\ pc = "returned") => chunk_num = 1

\* the chunked extractor has returned from a file without data rows
C11_Witness ==
    /\ csv_rows = <<>>
    /\ PandasRun
    /\ pc = "returned"
    /\ all_data = <<>>

\* the i-th row has a name
HasKey(i) ==
    /\ ~IsNA(Token(csv_rows[i], player_col))
    /\ strip(Token(csv_rows[i], player_col)) # <<>>

\* the position cell of the i-th row, as read, is an accepted value
AcceptedAsRead(i) ==
    PositionFilterOn =>
        /\ ~IsNA(Token(csv_rows[i], position_col))
        /\ Text(Token(csv_rows[i], position_col)) \in filters["positions"]

\* the trimmed position cell of the i-th row is an accepted value
AcceptedTrimmed(i) ==
    PositionFilterOn =>
        Text(strip(Token(csv_rows[i], position_col))) \in filters["positions"]

\* the trimmed names of the rows among the first n that have a name and
\* whose position (trimmed or as read) is accepted, in file order
RECURSIVE KeptKeys(_, _)
KeptKeys(n, trimmed) ==
    IF n = 0 THEN <<>>
    ELSE IF HasKey(n) /\ (IF trimmed THEN AcceptedTrimmed(n) ELSE AcceptedAsRead(n))
    THEN Append(KeptKeys(n - 1, trimmed), Text(strip(Token(csv_rows[n], player_col))))
    ELSE KeptKeys(n - 1, trimmed)

\* the names of the records extracted so far, in order
ExtractedKeys == [i \in 1..Len(all_data) |-> all_data[i][player_col]]

\* the rows read so far that have a name and were filtered out
NumFilteredOut == Cardinality({i \in 1..RowsRead : HasKey(i) /\ ~AcceptedTrimmed(i)})

\* the counters the chunk loop keeps
ChunkCounters == <<chunk_num, processed_rows>>

MergeInOrder(earlier, later) ==
    [k \in (DOMAIN earlier) \cup (DOMAIN later) |->
        IF k \in DOMAIN later THEN later[k] ELSE earlier[k]]

\* the rows 1..n cut after every position of cuts, one table per chunk, the
\* tables folded in file order
RECURSIVE FoldChunks(_, _)
FoldChunks(n, cuts) ==
    IF n = 0 THEN EmptyDict
    ELSE LET earlier == {c \in cuts : c < n}
             p == IF earlier = {} THEN 0
                  ELSE CHOOSE c \in earlier : \A d \in earlier : d <= c
         IN  MergeInOrder(FoldChunks(p, cuts), TableOf(SubSeq(csv_rows, p + 1, n)))

\* C20: however the rows are cut into consecutive chunks, the tables built
\* chunk by chunk and folded in file order, later over earlier, give the
\* table the row-by-row extraction of the whole file returns.
C20_OrderPreservingMerge ==
    (pc = "returned" /\ ~PandasRun) =>
        \A cuts \in SUBSET (1..(Len(csv_rows) - 1)) :
            FoldChunks(Len(csv_rows), cuts) = players_data

\* a cut with one key on both sides, the two chunk tables holding
\* different records for it
C20_Witness ==
    /\ pc = "returned"
    /\ ~PandasRun
    /\ \E cut \in 1..(Len(csv_rows) - 1) :
           LET first == TableOf(SubSeq(csv_rows, 1, cut))
               second == TableOf(SubSeq(csv_rows, cut + 1, Len(csv_rows)))
           IN  \E k \in (DOMAIN first) \cap (DOMAIN second) :
                   /\ first[k] # second[k]
                   /\ players_data[k] = second[k]

(***************************************************************************)
(* Failures, and what main() does around the extractors.                   *)
(***************************************************************************)
\* the read of the file has failed in the middle of the extraction
ReadFailed == pc \in {"io_error", "io_failed"}

\* the caller has left the call of the extractor
CallLeft == step \notin {"extract_player_data", "extract_fantasy_data"}

C14_SchemaFailureIsFatal ==
    csv_header.read # "ok" =>
        /\ step \in {"analyze_file", "analyze_file_structure", "return"}
        /\ step = "analyze_file" => ENABLED AnalyzeFileFails /\ ~ENABLED AnalyzeFile
        /\ step = "analyze_file_structure" =>
               ENABLED AnalyzeFileStructureFails /\ ~ENABLED AnalyzeFileStructure
        /\ headers = <<>>
        /\ stat_col_indices = <<>>
        /\ player_col = None
        /\ pc = "idle"
        /\ row_num = 0
        /\ chunk_num = 0
        /\ players_data = EmptyDict
        /\ all_data = <<>>
        /\ extracted_data = NoneValue
        /\ output_file = Absent
        /\ summary_file = Absent

\* main has returned from an empty file
C14_Witness ==
    /\ csv_header.read = "empty"
    /\ step = "return"

\* the records of a written table document
RecordsOf(doc) == {doc[i] : i \in DOMAIN doc}

\* the summary agrees with the table document and the extracted list
SummaryConsistent ==
    /\ output_file = Written(JsonList(extracted_data.value))
    /\ summary_file.doc.total_records = Len(output_file.doc)
    /\ \A r \in RecordsOf(output_file.doc) :
           DOMAIN r = {summary_file.doc.columns[i] :
                          i \in 1..Len(summary_file.doc.columns)}
    /\ IF output_file.doc = <<>>
       THEN summary_file.doc.sample_record = NoneValue
       ELSE /\ ~summary_file.doc.sample_record.none
            /\ summary_file.doc.sample_record.value \in RecordsOf(output_file.doc)

RowsIn(n) ==
    IF n * chunk_size <= Len(csv_rows) THEN n * chunk_size ELSE Len(csv_rows)

C19_NoUpsertAfterReturn ==
    [][pc = "returned" =>
          /\ players_data' = players_data
          /\ CallLeft => extracted_data' = extracted_data
          /\ CallLeft' => extracted_data' = Value(players_data)
          /\ output_file'.written = "complete" =>
                 output_file'.doc = JsonTable(players_data)]_vars

\* main has written a table with an entry and ended
C19_Witness ==
    /\ step = "complete"
    /\ output_file.written = "complete"
    /\ players_data # EmptyDict
    /\ output_file.doc = JsonTable(players_data)

(***************************************************************************)
(* The roles of the columns.                                               *)
(***************************************************************************)
\* the columns have been classified
Classified == step = "extract_fantasy_data" /\ ~sample_data.none

InList(col, list) == \E i \in 1..Len(detected[list]) : detected[list][i] = col

\* the column stands in exactly one place of one list, or in none
AtMostOnce(col) ==
    Cardinality({<<list, i>> \in (DOMAIN detected) \X (1..Len(headers)) :
                    i <= Len(detected[list]) /\ detected[list][i] = col}) <= 1

\* the role a column has received
RoleOf(col) ==
    IF InList(col, "player_columns") THEN "ENTITY_KEY"
    ELSE IF InList(col, "position_columns") \/ InList(col, "team_columns")
    THEN "CATEGORICAL"
    ELSE IF InList(col, "stat_columns") THEN "STATISTIC"
    ELSE "UNCLASSIFIED"

\* the temporal keywords of the specification
TemporalWords ==
    { <<"d", "a", "t", "e">>, <<"s", "e", "a", "s", "o", "n">>,
      <<"w", "e", "e", "k">> }

HeaderColumns == {headers[i] : i \in 1..Len(headers)}

PresentCells(col) ==
    {i \in 1..Len(sample_data.value) : ~IsNA(Token(sample_data.value[i], col))}

\* the cell has a space between two other characters
InternalSpace(cell) == Contains(strip(cell), " ")

\* more than half of the non-empty sample values have an internal space
MajorityLooksLikeNames(col) ==
    2 * Cardinality({i \in PresentCells(col) :
                        InternalSpace(Token(sample_data.value[i], col))})
      > Cardinality(PresentCells(col))

\* one of the first five non-missing sample values has a space in it
SpaceInFirstFive(col) ==
    \E i \in PresentCells(col) :
        /\ Contains(Token(sample_data.value[i], col), " ")
        /\ Cardinality({j \in PresentCells(col) : j < i}) < 5

\* C16 as stated: an entity-key candidate is ENTITY_KEY exactly if more than
\* half of its non-empty sample values contain an internal space, and is
\* UNCLASSIFIED otherwise.
C16_MajorityTest ==
    Classified =>
        \A col \in HeaderColumns :
            AnyKeyword(col, PlayerKeywords) =>
                RoleOf(col) = IF MajorityLooksLikeNames(col)
                              THEN "ENTITY_KEY" ELSE "UNCLASSIFIED"

\* C16 as amended: an entity-key candidate is ENTITY_KEY exactly if its
\* sample column was read as text and at least one of its first five
\* non-missing sample values contains a space (anywhere in the value), and is
\* UNCLASSIFIED otherwise, under no lower role.
C16_AnySpaceInFirstFive ==
    Classified =>
        \A col \in HeaderColumns :
            AnyKeyword(col, PlayerKeywords) =>
                RoleOf(col) =
                    IF ColumnDtype(sample_data.value, col) = "object"
                         /\ SpaceInFirstFive(col)
                    THEN "ENTITY_KEY" ELSE "UNCLASSIFIED"

\* a candidate kept for one spaced value among several, and a candidate that
\* also matches a lower group demoted to no role
C16_Witness ==
    /\ Classified
    /\ \/ /\ headers = <<"name">>
          /\ Cardinality(PresentCells("name")) > 5
          /\ ~MajorityLooksLikeNames("name")
          /\ RoleOf("name") = "ENTITY_KEY"
       \/ /\ headers = <<"name">>
          /\ Cardinality(PresentCells("name")) > 5
          /\ \E i \in PresentCells("name") :
                 Contains(Token(sample_data.value[i], "name"), " ")
          /\ RoleOf("name") = "UNCLASSIFIED"

(***************************************************************************)
(* The candidate columns of the streaming processor.                       *)
(***************************************************************************)
Found == step = "interactive_column_selection"

Listed(list, i) == \E k \in 1..Len(list) : list[k] = <<i - 1, headers[i]>>

InHeaderOrder(list) ==
    \A k \in 1..Len(list) :
        /\ list[k][1] \in 0..(Len(headers) - 1)
        /\ list[k][2] = headers[list[k][1] + 1]
        /\ \A m \in 1..(k - 1) : list[m][1] < list[k][1]

\* C21: find_player_columns lists a column as a player candidate exactly if
\* its lower-cased name contains a player keyword and as a stat candidate
\* exactly if it contains a stat keyword, independently (a header of both
\* groups is in both lists), each list in header order.
C21_AllMatchesReturned ==
    Found =>
        /\ \A i \in 1..Len(headers) :
               /\ Listed(detected.player_columns, i)
                     <=> AnyKeyword(headers[i], StreamPlayerKeywords)
               /\ Listed(detected.stat_columns, i)
                     <=> AnyKeyword(headers[i], StreamStatKeywords)
        /\ InHeaderOrder(detected.player_columns)
        /\ InHeaderOrder(detected.stat_columns)

\* a header of both groups in both lists, after a header of one
C21_Witness ==
    /\ Found
    /\ \E i \in 2..Len(headers) :
           /\ Listed(detected.player_columns, i)
           /\ Listed(detected.stat_columns, i)
           /\ Len(detected.player_columns) # Len(detected.stat_columns)

(***************************************************************************)
(* The records of the streaming extractor.                                 *)
(***************************************************************************)
\* C23: every record's 'name' attribute is the key the record is stored
\* under, whatever the projected columns and the header are.
C23_NameIsKey ==
    \A key \in DOMAIN players_data : players_data[key]["name"] = Text(key)

NonNegativeIndices ==
    \A j \in 1..Len(stat_col_indices) : stat_col_indices[j] >= 0

\* C24: with non-negative projected indices, a row that passes the short-row
\* guard has a cell for every projected column (stat_idx < len(row) is never
\* false), and every stored record has a value under the header of every
\* projected column.
C24_EveryProjectedColumnStored ==
    NonNegativeIndices =>
        /\ (pc = "loop" /\ row_num < Len(csv_rows) /\ ~ShortRow(row)) =>
               \A j \in 1..Len(stat_col_indices) : stat_col_indices[j] < Len(row)
        /\ \A key \in DOMAIN players_data :
               \A j \in 1..Len(stat_col_indices) :
                   /\ InRange(headers, stat_col_indices[j])
                   /\ PyIndex(headers, stat_col_indices[j])
                         \in DOMAIN players_data[key]

\* two columns are projected, a row short of one of them has been passed over
\* and another row is stored
C24_Witness ==
    /\ NonNegativeIndices
    /\ Len(stat_col_indices) = 2
    /\ pc = "returned"
    /\ players_data # EmptyDict
    /\ \E i \in 1..Len(csv_rows) :
           /\ Len(csv_rows[i]) = 2
           /\ player_col_idx < 2
           /\ player_name(csv_rows[i]) # <<>>
           /\ player_name(csv_rows[i]) \notin DOMAIN players_data

\* the row is long enough for every index and has a key
Storable(r) ==
    /\ \A c \in {player_col_idx} \cup
                 {stat_col_indices[j] : j \in 1..Len(stat_col_indices)} :
           c < Len(r)
    /\ strip(PyIndex(r, player_col_idx)) # <<>>

\* C25: the table does not depend on position_filter: whatever filter is
\* passed, a row the loop consumes is stored exactly if it is long enough and
\* has a key, so the table is the one built without a filter.
C25_FilterNeverApplied ==
    [][row_num' = row_num + 1 =>
          /\ IF Storable(row)
             THEN /\ strip(PyIndex(row, player_col_idx)) \in DOMAIN players_data'
                  /\ processed_rows' = processed_rows + 1
             ELSE players_data' = players_data
          /\ position_filter' = position_filter]_vars

\* a filter was passed and a row with none of its values is in the table
C25_Witness ==
    /\ pc = "returned"
    /\ ~position_filter.none
    /\ \E i \in 1..Len(csv_rows) :
           /\ Storable(csv_rows[i])
           /\ \A c \in 1..Len(csv_rows[i]) :
                  \A f \in 1..Len(position_filter.value) :
                      csv_rows[i][c] # position_filter.value[f]
           /\ player_name(csv_rows[i]) \in DOMAIN players_data

\* the rows read so far that passed the short-row guard and have a key
Passed == {i \in 1..row_num : Storable(csv_rows[i])}

\* C26: after every row, processed_rows is the number of rows so far that
\* passed the short-row guard and the non-empty-key check, and the table has
\* as many entries as those rows have distinct trimmed keys; so
\* table size <= processed_rows <= rows read.
C26_CounterAndTable ==
    /\ processed_rows = Cardinality(Passed)
    /\ Cardinality(DOMAIN players_data) =
          Cardinality({strip(PyIndex(csv_rows[i], player_col_idx)) : i \in Passed})
    /\ Cardinality(DOMAIN players_data) <= processed_rows
    /\ processed_rows <= row_num

\* a key stored twice and a row passed over
C26_Witness ==
    /\ pc = "returned"
    /\ 0 < Cardinality(DOMAIN players_data)
    /\ Cardinality(DOMAIN players_data) < processed_rows
    /\ processed_rows < row_num

\* the header of the j-th projected column
StatName(j) == PyIndex(headers, stat_col_indices[j])

\* no later projected column has the header of the j-th
LastOfItsName(j) ==
    \A m \in (j + 1)..Len(stat_col_indices) : StatName(m) # StatName(j)

\* C27: when two projected columns have the same header, the record stored
\* for a row holds one attribute under that name, the coerced cell of the
\* column that comes last in the projected indices.
C27_LastProjectedColumnWins ==
    [][(row_num' = row_num + 1 /\ Storable(row)) =>
          LET record == players_data'[strip(PyIndex(row, player_col_idx))]
          IN  /\ DOMAIN record =
                    {"name"} \cup {StatName(j) : j \in 1..Len(stat_col_indices)}
              /\ \A j \in 1..Len(stat_col_indices) :
                     LastOfItsName(j) =>
                         record[StatName(j)] =
                             Coerce(strip(PyIndex(row, stat_col_indices[j])))]_vars

\* two columns named points are projected, and the record holds the cell of
\* the second projected one, which differs from the cell of the first
C27_Witness ==
    /\ pc = "returned"
    /\ Len(stat_col_indices) = 2
    /\ StatName(1) = StatName(2)
    /\ stat_col_indices[1] # stat_col_indices[2]
    /\ \E i \in 1..Len(csv_rows) :
           /\ Storable(csv_rows[i])
           /\ LET r == csv_rows[i]
                  record == players_data[player_name(r)]
              IN  /\ record[StatName(2)] = Coerce(strip(PyIndex(r, stat_col_indices[2])))
                  /\ record[StatName(2)] # Coerce(strip(PyIndex(r, stat_col_indices[1])))

(***************************************************************************)
(* The order of the steps of main().                                       *)
(***************************************************************************)
StreamSteps ==
    <<"analyze_file", "find_player_columns", "interactive_column_selection",
      "extract_player_data", "save_extracted_data", "complete">>

\* C28: main of the streaming processor goes through analyze, column
\* detection, interactive selection, extraction and save in this order only;
\* extraction starts only after a successful analysis and a completed
\* selection; a run that ends at the selection (or at the analysis) has
\* extracted nothing and written no output file.
C28_PipelineOrder ==
    [][/\ step' # step =>
            \/ \E k \in 1..(Len(StreamSteps) - 1) :
                   step = StreamSteps[k] /\ step' = StreamSteps[k + 1]
            \/ step \in {"analyze_file", "interactive_column_selection"}
                  /\ step' = "return"
            \/ step = "extract_player_data" /\ step' = "traceback"
       /\ (step' = "extract_player_data" /\ step' # step) =>
            /\ csv_header.read = "ok"
            /\ headers = csv_header.row
            /\ pc = "idle"
       /\ pc' # "idle" =>
            step' \in {"extract_player_data", "save_extracted_data",
                       "complete", "traceback"}
       /\ step' = "return" =>
            /\ pc' = "idle"
            /\ row_num' = 0
            /\ players_data' = EmptyDict
            /\ extracted_data' = NoneValue
            /\ output_file' = Absent
       /\ output_file' # output_file => step = "save_extracted_data"]_vars

\* the operator has cancelled the selection of the columns of a readable file
C28_Witness ==
    /\ step = "return"
    /\ csv_header.read = "ok"
    /\ headers = csv_header.row
    /\ headers # <<>>
    /\ detected # NothingDetected
    /\ output_file = Absent

\* main() has called extract_fantasy_data and the call is over
AfterExtraction ==
    step \in {"if not extracted_data", "save_for_integration", "write summary",
              "complete", "return"} /\ pc # "idle"

\* C29: nothing is persisted for an extraction that failed or produced no
\* record: main returns at `if not extracted_data` when the result is None
\* or an empty list and reaches the saving only with records, and
\* save_for_integration called with no data writes neither file.
C29_NothingPersistedForNoData ==
    /\ Falsy(extracted_data) =>
           /\ output_file = Absent
           /\ summary_file = Absent
    /\ (step = "if not extracted_data" /\ Falsy(extracted_data)) =>
           ENABLED NoDataExtracted /\ ~ENABLED AnalyzeFantasyPositions
    /\ (AfterExtraction /\ pc \in {"failed", "io_failed"}) =>
           /\ extracted_data = NoneValue
           /\ step \in {"if not extracted_data", "return"}
    /\ (AfterExtraction /\ pc = "returned" /\ all_data = <<>>) =>
           /\ extracted_data = Value(<<>>)
           /\ step \in {"if not extracted_data", "return"}
    /\ (AfterExtraction /\ step \in {"save_for_integration", "write summary",
                                      "complete"}) =>
           ~Falsy(extracted_data)

\* save_for_integration has returned from a call with an empty list
C29_Witness ==
    /\ step = "complete"
    /\ pc = "idle"
    /\ extracted_data = Value(<<>>)
    /\ output_file = Absent
    /\ summary_file = Absent

(***************************************************************************)
(* The chunks of split_path_commands.                                      *)
(***************************************************************************)
\* C22: with at least num_chunks commands, split_path_commands returns
\* exactly num_chunks chunks whose sizes differ by at most one (12 chunks
\* for the script's num_chunks = 12).
C22_EqualChunks ==
    (split_pc = "returned" /\ Len(commands) >= num_chunks) =>
        /\ Len(chunks) = num_chunks
        /\ \A a, b \in 1..Len(chunks) : Len(chunks[a]) - Len(chunks[b]) <= 1

(***************************************************************************)
(* The pairs of clean_rankings.py.                                         *)
(***************************************************************************)
StrippedLine(n) == strip(lines[n])

IsRankLine(n) == rank_match(StrippedLine(n))

IsPlayerLine(n) ==
    /\ ~Skipped(StrippedLine(n))
    /\ ~rank_match(StrippedLine(n))
    /\ player_match(StrippedLine(n))

\* the last rank line among the first n lines, 0 if there is none
LastRank(n) ==
    IF \E r \in 1..n : IsRankLine(r)
    THEN CHOOSE r \in 1..n :
             IsRankLine(r) /\ \A q \in (r + 1)..n : ~IsRankLine(q)
    ELSE 0

\* after n lines a rank waits for its player: no player line has come since
\* the last rank line
PendingAfter(n) ==
    /\ LastRank(n) > 0
    /\ \A q \in (LastRank(n) + 1)..n : ~IsPlayerLine(q)

\* the pairs of the first n lines: each player line that finds a rank
\* waiting, with that rank
RECURSIVE PairsOf(_)
PairsOf(n) ==
    IF n = 0 THEN <<>>
    ELSE PairsOf(n - 1) \o
           (IF IsPlayerLine(n) /\ PendingAfter(n - 1)
            THEN << Emitted(StrippedLine(LastRank(n - 1)), StrippedLine(n)) >>
            ELSE <<>>)

\* C30: each emitted result pairs a player line with the most recent rank
\* line before it; a rank is used by at most one player line; a player line
\* with no rank waiting emits nothing; a rank line followed by another rank
\* line before any player line is overwritten and never emitted.
C30_RankPlayerPairing ==
    rank_pc \in {"loop", "printed"} =>
        /\ results = PairsOf(line_num)
        /\ current_rank = IF PendingAfter(line_num)
                          THEN Value(StrippedLine(LastRank(line_num)))
                          ELSE NoneValue

\* two ranks, then two players: the second rank with the first player
C30_Witness ==
    /\ rank_pc = "printed"
    /\ lines = <<RankLine7, RankLine12, PlayerLine, PlayerLineO>>
    /\ results =
          << <<"1", "2", " ", "A", "l", " ", "B", "o", " ", "(", "N", "O", ")">> >>
    /\ current_rank = NoneValue

=============================================================================
